---- MODULE Spec2Model ----
(***************************************************************************)
(* A state-machine model of the backtracking module                        *)
(* (src/algorithms/backtracking.py).  Every solver is modelled with an     *)
(* explicit call stack: one frame per active invocation of its recursive   *)
(* helper, holding the helper's locals and its position in the body.       *)
(* Each solver has its own variable (a record whose fields carry the       *)
(* names used in the source) and its own specification; the variables of   *)
(* the other solvers stay Idle under that specification.                   *)
(***************************************************************************)
EXTENDS Integers, Sequences, FiniteSets, TLC

VARIABLES nq, sd, ss, cs, pm, ws, ms, kt, pa, sp, rm, hc, pp,
          so, se, sk, cl, dl, qu, cc, th

vars == <<nq, sd, ss, cs, pm, ws, ms, kt, pa, sp, rm, hc, pp,
          so, se, sk, cl, dl, qu, cc, th>>

Idle == [pc |-> "idle"]

(* The variables of the backtracking module and those of the other         *)
(* modules, and the states in which none of them is in use.                *)
backtracking == <<nq, sd, ss, cs, pm, ws, ms, kt, pa, sp, rm, hc, pp>>

others == <<so, se, sk, cl, dl, qu, cc, th>>

BacktrackingIdle ==
    /\ nq = Idle /\ sd = Idle /\ ss = Idle /\ cs = Idle /\ pm = Idle /\ ws = Idle
    /\ ms = Idle /\ kt = Idle /\ pa = Idle /\ sp = Idle /\ rm = Idle /\ hc = Idle
    /\ pp = Idle

OthersIdle ==
    /\ so = Idle /\ se = Idle /\ sk = Idle /\ cl = Idle /\ dl = Idle /\ qu = Idle
    /\ cc = Idle /\ th = Idle

----------------------------------------------------------------------------
(* Helpers on sequences used as Python lists and as the call stack.        *)

Top(s) == s[Len(s)]

Pop(s) == SubSeq(s, 1, Len(s) - 1)

SetTop(s, f) == [s EXCEPT ![Len(s)] = f]

RECURSIVE SeqSum(_)
SeqSum(s) == IF s = <<>> THEN 0 ELSE s[1] + SeqSum(Tail(s))

(* Strict lexicographic order on integer sequences (a proper prefix is     *)
(* smaller).                                                               *)
RECURSIVE LexLess(_, _)
LexLess(a, b) ==
    IF b = <<>> THEN FALSE
    ELSE IF a = <<>> THEN TRUE
    ELSE IF a[1] # b[1] THEN a[1] < b[1]
    ELSE LexLess(Tail(a), Tail(b))

StrictlyLexSorted(r) == \A k \in 1..(Len(r) - 1) : LexLess(r[k], r[k + 1])

SeqRange(s) == {s[k] : k \in 1..Len(s)}

----------------------------------------------------------------------------
(* n_queens                                                                *)

NQMaxN == 6

nqOthers == <<sd, ss, cs, pm, ws, ms,
              kt, pa, sp, rm, hc, pp, others>>

(* is_safe with an off-by-one that skips the check against row 0.          *)
is_safe_skip_first(board, row, col) ==
    \A i \in 1..(row - 1) :
        ~(\/ board[i + 1] = col
          \/ board[i + 1] - i = col - row
          \/ board[i + 1] + i = col + row)

is_safe(board, row, col) ==
    \A i \in 0..(row - 1) :
        ~(\/ board[i + 1] = col
          \/ board[i + 1] - i = col - row
          \/ board[i + 1] + i = col + row)

NQInit ==
    /\ nq \in {[pc |-> "start", n |-> n, board |-> <<>>, solutions |-> <<>>,
                stack |-> <<>>, result |-> <<>>] : n \in (-1)..NQMaxN}
    /\ sd = Idle /\ ss = Idle /\ cs = Idle /\ pm = Idle /\ ws = Idle /\ ms = Idle
    /\ kt = Idle /\ pa = Idle /\ sp = Idle /\ rm = Idle /\ hc = Idle /\ pp = Idle
    /\ OthersIdle

(* The validation, then solutions = [] and the call solve(0, [], solutions). *)
NQ_Call ==
    /\ nq.pc = "start"
    /\ nq' = IF nq.n <= 0
             THEN [nq EXCEPT !.pc = "ValueError"]
             ELSE [nq EXCEPT !.pc = "running",
                             !.stack = <<[row |-> 0, col |-> 0, pc |-> "entry"]>>]
    /\ UNCHANGED nqOthers

(* Entry of solve: the terminal test row == n.                              *)
NQ_SolveEntry ==
    /\ nq.pc = "running" /\ nq.stack # <<>> /\ Top(nq.stack).pc = "entry"
    /\ nq' = IF Top(nq.stack).row = nq.n
             THEN [nq EXCEPT !.solutions = Append(@, nq.board),
                             !.stack = Pop(@)]
             ELSE [nq EXCEPT !.stack = SetTop(@, [Top(@) EXCEPT !.pc = "loop"])]
    /\ UNCHANGED nqOthers

(* One iteration of for col in range(n): the safe column is appended and   *)
(* solve(row + 1) is called; an unsafe one is skipped; the exhausted loop  *)
(* returns.                                                                *)
NQ_SolveLoop ==
    /\ nq.pc = "running" /\ nq.stack # <<>> /\ Top(nq.stack).pc = "loop"
    /\ LET f == Top(nq.stack) IN
       nq' = IF f.col = nq.n
             THEN [nq EXCEPT !.stack = Pop(@)]
             ELSE IF is_safe(nq.board, f.row, f.col)
             THEN [nq EXCEPT !.board = Append(@, f.col),
                             !.stack = Append(SetTop(@, [f EXCEPT !.pc = "undo"]),
                                              [row |-> f.row + 1, col |-> 0,
                                               pc |-> "entry"])]
             ELSE [nq EXCEPT !.stack = SetTop(@, [f EXCEPT !.col = @ + 1])]
    /\ UNCHANGED nqOthers

(* The step after the child call with board.pop() forgotten.               *)
NQ_SolveUndo_keeps_board ==
    /\ nq.pc = "running" /\ nq.stack # <<>> /\ Top(nq.stack).pc = "undo"
    /\ nq' = [nq EXCEPT !.stack = SetTop(@, [Top(@) EXCEPT !.col = @ + 1,
                                                           !.pc = "loop"])]
    /\ UNCHANGED nqOthers

(* After the child call returns: board.pop(), then the next column.        *)
NQ_SolveUndo ==
    /\ nq.pc = "running" /\ nq.stack # <<>> /\ Top(nq.stack).pc = "undo"
    /\ nq' = [nq EXCEPT !.board = Pop(@),
                        !.stack = SetTop(@, [Top(@) EXCEPT !.col = @ + 1,
                                                           !.pc = "loop"])]
    /\ UNCHANGED nqOthers

(* solve(0, ...) has returned: return solutions.                           *)
NQ_Return ==
    /\ nq.pc = "running" /\ nq.stack = <<>>
    /\ nq' = [nq EXCEPT !.pc = "done", !.result = nq.solutions]
    /\ UNCHANGED nqOthers

NQNext == NQ_Call \/ NQ_SolveEntry \/ NQ_SolveLoop \/ NQ_SolveUndo \/ NQ_Return

SpecNQ == NQInit /\ [][NQNext]_vars

(* Reference notion for the claims about n_queens: the placements of n     *)
(* queens, one per row, no two attacking each other.                       *)
NQValid(n, b) ==
    \A i \in 1..n : \A j \in (i + 1)..n :
        b[i] # b[j] /\ b[i] - b[j] # j - i /\ b[j] - b[i] # j - i

NQAll(n) == {b \in [1..n -> 0..(n - 1)] : NQValid(n, b)}

(* C3: for n >= 1, n_queens(n) returns exactly the placements of n         *)
(* non-attacking queens, each once, in lexicographic order; 2 of them for  *)
(* n = 4 and none for n = 2 and n = 3.                                     *)
C3_NQueensExact ==
    (nq.pc = "done") =>
        /\ SeqRange(nq.result) = NQAll(nq.n)
        /\ StrictlyLexSorted(nq.result)
        /\ (nq.n = 4 => Len(nq.result) = 2)
        /\ (nq.n \in {2, 3} => nq.result = <<>>)

C3_Witness == nq.pc = "done" /\ nq.n = 4 /\ Len(nq.result) = 2

----------------------------------------------------------------------------
(* Reference notions for the subset and combination enumerations.  Index   *)
(* sequences are 1-based positions into the input list.                    *)

RECURSIVE IncSeq(_)
IncSeq(S) ==
    IF S = {} THEN <<>>
    ELSE LET m == CHOOSE x \in S : \A y \in S : x <= y
         IN  <<m>> \o IncSeq(S \ {m})

RECURSIVE LexSortedSeq(_)
LexSortedSeq(S) ==
    IF S = {} THEN <<>>
    ELSE LET m == CHOOSE x \in S : \A y \in S \ {x} : LexLess(x, y)
         IN  <<m>> \o LexSortedSeq(S \ {m})

ValuesAt(nums, idx) == [k \in 1..Len(idx) |-> nums[idx[k]]]

AllPositive(nums) == \A k \in 1..Len(nums) : nums[k] >= 1

----------------------------------------------------------------------------
(* subset_sum                                                              *)

SSMaxLen == 3

SSMaxTarget == 4

SSVals == (-1)..3

ssOthers == <<nq, sd, cs, pm, ws, ms,
              kt, pa, sp, rm, hc, pp, others>>

SSInit ==
    /\ ss \in {[pc |-> "start", nums |-> nums, target |-> target, path |-> <<>>,
                result |-> <<>>, stack |-> <<>>] :
               nums \in UNION {[1..k -> SSVals] : k \in 0..SSMaxLen},
               target \in (-1)..SSMaxTarget}
    /\ nq = Idle /\ sd = Idle /\ cs = Idle /\ pm = Idle /\ ws = Idle /\ ms = Idle
    /\ kt = Idle /\ pa = Idle /\ sp = Idle /\ rm = Idle /\ hc = Idle /\ pp = Idle
    /\ OthersIdle

(* The child call with start = start + 1 instead of i + 1.                 *)
SS_ChildFrame_from_start(f, nums) ==
    [start |-> f.start + 1, i |-> 0,
     current_sum |-> f.current_sum + nums[f.i + 1], pc |-> "entry"]

(* The frame of backtrack(i + 1, path, current_sum + nums[i]).             *)
SS_ChildFrame(f, nums) ==
    [start |-> f.i + 1, i |-> 0,
     current_sum |-> f.current_sum + nums[f.i + 1], pc |-> "entry"]

(* The validation (every modelled input is a list of integers and an       *)
(* integer target), result = [] and the call backtrack(0, [], 0).          *)
SS_Call ==
    /\ ss.pc = "start"
    /\ ss' = [ss EXCEPT !.pc = "running",
                        !.stack = <<[start |-> 0, i |-> 0, current_sum |-> 0,
                                     pc |-> "entry"]>>]
    /\ UNCHANGED ssOthers

(* Entry of backtrack: record and return on current_sum == target, return  *)
(* on current_sum > target, otherwise start the loop at i = start.         *)
SS_Entry ==
    /\ ss.pc = "running" /\ ss.stack # <<>> /\ Top(ss.stack).pc = "entry"
    /\ LET f == Top(ss.stack) IN
       ss' = IF f.current_sum = ss.target
             THEN [ss EXCEPT !.result = Append(@, ss.path), !.stack = Pop(@)]
             ELSE IF f.current_sum > ss.target
             THEN [ss EXCEPT !.stack = Pop(@)]
             ELSE [ss EXCEPT !.stack = SetTop(@, [f EXCEPT !.i = f.start,
                                                           !.pc = "loop"])]
    /\ UNCHANGED ssOthers

(* One iteration of for i in range(start, len(nums)): append nums[i] and   *)
(* call backtrack; the exhausted loop returns.                             *)
SS_Loop ==
    /\ ss.pc = "running" /\ ss.stack # <<>> /\ Top(ss.stack).pc = "loop"
    /\ LET f == Top(ss.stack) IN
       ss' = IF f.i >= Len(ss.nums)
             THEN [ss EXCEPT !.stack = Pop(@)]
             ELSE [ss EXCEPT !.path = Append(@, ss.nums[f.i + 1]),
                             !.stack = Append(SetTop(@, [f EXCEPT !.pc = "undo"]),
                                              SS_ChildFrame(f, ss.nums))]
    /\ UNCHANGED ssOthers

(* After the child call returns: path.pop(), then the next i.              *)
SS_Undo ==
    /\ ss.pc = "running" /\ ss.stack # <<>> /\ Top(ss.stack).pc = "undo"
    /\ ss' = [ss EXCEPT !.path = Pop(@),
                        !.stack = SetTop(@, [Top(@) EXCEPT !.i = @ + 1,
                                                           !.pc = "loop"])]
    /\ UNCHANGED ssOthers

(* backtrack(0, [], 0) has returned: return result.                        *)
SS_Return ==
    /\ ss.pc = "running" /\ ss.stack = <<>>
    /\ ss' = [ss EXCEPT !.pc = "done"]
    /\ UNCHANGED ssOthers

SSNext == SS_Call \/ SS_Entry \/ SS_Loop \/ SS_Undo \/ SS_Return

SpecSS == SSInit /\ [][SSNext]_vars

(* Reference notion for the claims about subset_sum: the increasing index  *)
(* sequences of nums whose elements sum to target.                         *)
SSIndexSubsets(nums, target) ==
    {idx \in {IncSeq(S) : S \in SUBSET (1..Len(nums))} :
        SeqSum(ValuesAt(nums, idx)) = target}

SSExpected(nums, target) ==
    LET sorted == LexSortedSeq(SSIndexSubsets(nums, target))
    IN  [k \in 1..Len(sorted) |-> ValuesAt(nums, sorted[k])]

(* C4: for every list of integers, zeros and negative numbers included,    *)
(* and every target, subset_sum returns every subset of nums (by index     *)
(* positions, elements in index order) whose elements sum to target.       *)
C4_AllSubsetsReturned ==
    (ss.pc = "done") =>
        \A idx \in SSIndexSubsets(ss.nums, ss.target) :
            ValuesAt(ss.nums, idx) \in SeqRange(ss.result)

(* C5: for strictly positive nums and target >= 1, subset_sum returns      *)
(* exactly the index subsets that sum to target, each once, in increasing  *)
(* index order, the list ordered lexicographically by index sequence;      *)
(* subset_sum([1,2,3], 3) = [[1,2],[3]].                                   *)
C5_PositiveSubsetsExact ==
    (ss.pc = "done" /\ AllPositive(ss.nums) /\ ss.target >= 1) =>
        /\ ss.result = SSExpected(ss.nums, ss.target)
        /\ (ss.nums = <<1, 2, 3>> /\ ss.target = 3
                => ss.result = << <<1, 2>>, <<3>> >>)

C5_Witness ==
    /\ ss.pc = "done" /\ ss.nums = <<1, 2, 3>> /\ ss.target = 3
    /\ ss.result = << <<1, 2>>, <<3>> >>

----------------------------------------------------------------------------
(* combination_sum                                                         *)

CSMaxLen == 3

CSMaxTarget == 4

CSVals == (-1)..3

(* The call made in main(): combination_sum([2, 3, 6, 7], 7).              *)
CSDemo == [candidates |-> <<2, 3, 6, 7>>, target |-> 7]

(* The depth at which the interpreter gives up on a runaway recursion      *)
(* (RecursionError), scaled to the bounded inputs: a search over strictly  *)
(* positive candidates never has more than target + 1 active invocations.  *)
RecursionLimit == CSDemo.target + CSMaxTarget

csOthers == <<nq, sd, ss, pm, ws, ms,
              kt, pa, sp, rm, hc, pp, others>>

CSInit ==
    /\ cs \in {[pc |-> "start", candidates |-> in.candidates,
                target |-> in.target, path |-> <<>>, result |-> <<>>,
                stack |-> <<>>] :
               in \in {CSDemo} \cup
                      {[candidates |-> c, target |-> target] :
                         c \in UNION {[1..k -> CSVals] : k \in 0..CSMaxLen},
                         target \in (-1)..CSMaxTarget}}
    /\ nq = Idle /\ sd = Idle /\ ss = Idle /\ pm = Idle /\ ws = Idle /\ ms = Idle
    /\ kt = Idle /\ pa = Idle /\ sp = Idle /\ rm = Idle /\ hc = Idle /\ pp = Idle
    /\ OthersIdle

(* The child call with start = i + 1: every candidate used at most once.   *)
CS_ChildFrame_no_reuse(f, candidates) ==
    [start |-> f.i + 1, i |-> 0,
     total |-> f.total + candidates[f.i + 1], pc |-> "entry"]

(* The frame of backtrack(i, path, total + candidates[i]).                 *)
CS_ChildFrame(f, candidates) ==
    [start |-> f.i, i |-> 0,
     total |-> f.total + candidates[f.i + 1], pc |-> "entry"]

(* The validation (every modelled input is a list of integers and an       *)
(* integer target), result = [] and the call backtrack(0, [], 0).          *)
CS_Call ==
    /\ cs.pc = "start"
    /\ cs' = [cs EXCEPT !.pc = "running",
                        !.stack = <<[start |-> 0, i |-> 0, total |-> 0,
                                     pc |-> "entry"]>>]
    /\ UNCHANGED csOthers

(* Entry of backtrack: record and return on total == target, return on     *)
(* total > target, otherwise start the loop at i = start.                  *)
CS_Entry ==
    /\ cs.pc = "running" /\ cs.stack # <<>> /\ Top(cs.stack).pc = "entry"
    /\ LET f == Top(cs.stack) IN
       cs' = IF f.total = cs.target
             THEN [cs EXCEPT !.result = Append(@, cs.path), !.stack = Pop(@)]
             ELSE IF f.total > cs.target
             THEN [cs EXCEPT !.stack = Pop(@)]
             ELSE [cs EXCEPT !.stack = SetTop(@, [f EXCEPT !.i = f.start,
                                                           !.pc = "loop"])]
    /\ UNCHANGED csOthers

(* One iteration of for i in range(start, len(candidates)): append         *)
(* candidates[i] and call backtrack(i, ...); the call fails with           *)
(* RecursionError when the stack is already RecursionLimit deep, and the   *)
(* error propagates out of combination_sum.  The exhausted loop returns.   *)
CS_Loop ==
    /\ cs.pc = "running" /\ cs.stack # <<>> /\ Top(cs.stack).pc = "loop"
    /\ LET f == Top(cs.stack) IN
       cs' = IF f.i >= Len(cs.candidates)
             THEN [cs EXCEPT !.stack = Pop(@)]
             ELSE IF Len(cs.stack) >= RecursionLimit
             THEN [cs EXCEPT !.path = Append(@, cs.candidates[f.i + 1]),
                             !.pc = "RecursionError"]
             ELSE [cs EXCEPT !.path = Append(@, cs.candidates[f.i + 1]),
                             !.stack = Append(SetTop(@, [f EXCEPT !.pc = "undo"]),
                                              CS_ChildFrame(f, cs.candidates))]
    /\ UNCHANGED csOthers

(* After the child call returns: path.pop(), then the next i.              *)
CS_Undo ==
    /\ cs.pc = "running" /\ cs.stack # <<>> /\ Top(cs.stack).pc = "undo"
    /\ cs' = [cs EXCEPT !.path = Pop(@),
                        !.stack = SetTop(@, [Top(@) EXCEPT !.i = @ + 1,
                                                           !.pc = "loop"])]
    /\ UNCHANGED csOthers

(* backtrack(0, [], 0) has returned: return result.                        *)
CS_Return ==
    /\ cs.pc = "running" /\ cs.stack = <<>>
    /\ cs' = [cs EXCEPT !.pc = "done"]
    /\ UNCHANGED csOthers

CSNext == CS_Call \/ CS_Entry \/ CS_Loop \/ CS_Undo \/ CS_Return

SpecCS == CSInit /\ [][CSNext]_vars

(* Reference notions for the claims about combination_sum.                 *)
NonDecreasing(idx) == \A k \in 1..(Len(idx) - 1) : idx[k] <= idx[k + 1]

Distinct(s) == \A j, k \in 1..Len(s) : j # k => s[j] # s[k]

(* The multisets over strictly positive candidates that sum to target, as  *)
(* non-decreasing index sequences (none is longer than target).            *)
CSIndexMultisets(candidates, target) ==
    {idx \in UNION {[1..L -> 1..Len(candidates)] : L \in 0..target} :
        NonDecreasing(idx) /\ SeqSum(ValuesAt(candidates, idx)) = target}

CSExpected(candidates, target) ==
    LET sorted == LexSortedSeq(CSIndexMultisets(candidates, target))
    IN  [k \in 1..Len(sorted) |-> ValuesAt(candidates, sorted[k])]

(* C6: for every list of integers (0 and negative values included) and     *)
(* every integer target, the search of combination_sum terminates and      *)
(* returns a list: no error such as recursion-depth exhaustion is raised.  *)
C6_NoErrorDuringSearch == cs.pc # "RecursionError"

(* C7: for distinct strictly positive candidates and target >= 1,          *)
(* combination_sum returns exactly the multisets of candidates that sum to *)
(* target, each once, as sequences of non-decreasing candidate index,      *)
(* ordered lexicographically by index sequence.                            *)
C7_CombinationsExact ==
    (/\ cs.pc = "done" /\ AllPositive(cs.candidates)
     /\ Distinct(cs.candidates) /\ cs.target >= 1) =>
        /\ cs.result = CSExpected(cs.candidates, cs.target)
        /\ (cs.candidates = <<2, 3, 6, 7>> /\ cs.target = 7
                => cs.result = << <<2, 2, 3>>, <<7>> >>)

C7_Witness ==
    /\ cs.pc = "done" /\ cs.candidates = <<2, 3, 6, 7>> /\ cs.target = 7
    /\ cs.result = << <<2, 2, 3>>, <<7>> >>

----------------------------------------------------------------------------
(* permutations                                                            *)

PMMaxLen == 4

pmOthers == <<nq, sd, ss, cs, ws, ms,
              kt, pa, sp, rm, hc, pp, others>>

(* nums with the elements at the 0-based positions a and b exchanged.      *)
Swap(nums, a, b) ==
    [nums EXCEPT ![a + 1] = nums[b + 1], ![b + 1] = nums[a + 1]]

(* The lists of pairwise distinct elements drawn from 1..PMMaxLen.  nums0  *)
(* records the list as it was at the call.                                 *)
PMInputs ==
    {s \in UNION {[1..k -> 1..PMMaxLen] : k \in 0..PMMaxLen} : 
        \A j, k \in 1..Len(s) : j # k => s[j] # s[k]}

PMInit ==
    /\ pm \in {[pc |-> "start", nums |-> s, nums0 |-> s, result |-> <<>>,
                stack |-> <<>>] : s \in PMInputs}
    /\ nq = Idle /\ sd = Idle /\ ss = Idle /\ cs = Idle /\ ws = Idle /\ ms = Idle
    /\ kt = Idle /\ pa = Idle /\ sp = Idle /\ rm = Idle /\ hc = Idle /\ pp = Idle
    /\ OthersIdle

(* The swap-back forgotten: the array is left as the child call found it.  *)
PM_UndoSwap_missing(nums, f) == nums

(* nums[start], nums[i] = nums[i], nums[start] after the child call.       *)
PM_UndoSwap(nums, f) == Swap(nums, f.start, f.i)

(* The validation (every modelled input is a list), result = [] and the    *)
(* call backtrack(0).                                                      *)
PM_Call ==
    /\ pm.pc = "start"
    /\ pm' = [pm EXCEPT !.pc = "running",
                        !.stack = <<[start |-> 0, i |-> 0, pc |-> "entry"]>>]
    /\ UNCHANGED pmOthers

(* Entry of backtrack: record nums[:] and return on start == len(nums),    *)
(* otherwise start the loop at i = start.                                  *)
PM_Entry ==
    /\ pm.pc = "running" /\ pm.stack # <<>> /\ Top(pm.stack).pc = "entry"
    /\ LET f == Top(pm.stack) IN
       pm' = IF f.start = Len(pm.nums)
             THEN [pm EXCEPT !.result = Append(@, pm.nums), !.stack = Pop(@)]
             ELSE [pm EXCEPT !.stack = SetTop(@, [f EXCEPT !.i = f.start,
                                                           !.pc = "loop"])]
    /\ UNCHANGED pmOthers

(* One iteration of for i in range(start, len(nums)): swap positions start *)
(* and i and call backtrack(start + 1); the exhausted loop returns.        *)
PM_Loop ==
    /\ pm.pc = "running" /\ pm.stack # <<>> /\ Top(pm.stack).pc = "loop"
    /\ LET f == Top(pm.stack) IN
       pm' = IF f.i >= Len(pm.nums)
             THEN [pm EXCEPT !.stack = Pop(@)]
             ELSE [pm EXCEPT !.nums = Swap(@, f.start, f.i),
                             !.stack = Append(SetTop(@, [f EXCEPT !.pc = "undo"]),
                                              [start |-> f.start + 1, i |-> 0,
                                               pc |-> "entry"])]
    /\ UNCHANGED pmOthers

(* The swap back as it would act had result.append(nums) recorded the list *)
(* itself and not a copy: every recorded element is the swapped list.      *)
PM_Undo_on_recorded_list ==
    /\ pm.pc = "running" /\ pm.stack # <<>> /\ Top(pm.stack).pc = "undo"
    /\ LET swapped == PM_UndoSwap(pm.nums, Top(pm.stack)) IN
       pm' = [pm EXCEPT !.nums = swapped,
                        !.result = [k \in 1..Len(pm.result) |-> swapped],
                        !.stack = SetTop(@, [Top(@) EXCEPT !.i = @ + 1,
                                                           !.pc = "loop"])]
    /\ UNCHANGED pmOthers

(* After the child call returns: swap back, then the next i.               *)
PM_Undo ==
    /\ pm.pc = "running" /\ pm.stack # <<>> /\ Top(pm.stack).pc = "undo"
    /\ pm' = [pm EXCEPT !.nums = PM_UndoSwap(@, Top(pm.stack)),
                        !.stack = SetTop(@, [Top(@) EXCEPT !.i = @ + 1,
                                                           !.pc = "loop"])]
    /\ UNCHANGED pmOthers

(* backtrack(0) has returned: return result.                               *)
PM_Return ==
    /\ pm.pc = "running" /\ pm.stack = <<>>
    /\ pm' = [pm EXCEPT !.pc = "done"]
    /\ UNCHANGED pmOthers

PMNext == PM_Call \/ PM_Entry \/ PM_Loop \/ PM_Undo \/ PM_Return

SpecPM == PMInit /\ [][PMNext]_vars

(* Reference notions for the claims about permutations.                    *)
RECURSIVE Factorial(_)
Factorial(k) == IF k = 0 THEN 1 ELSE k * Factorial(k - 1)

(* Every rearrangement of a: a composed with every bijection of its        *)
(* positions.                                                              *)
Rearrangements(a) ==
    {[k \in 1..Len(a) |-> a[p[k]]] : p \in Permutations(1..Len(a))}

(* The swap order as a function of the array value: the rearrangements of  *)
(* a[start..] obtained by exchanging position start with each position     *)
(* i >= start in increasing i (0-based), each followed by those of the     *)
(* rest.                                                                   *)
RECURSIVE SwapOrder(_, _)
RECURSIVE SwapOrderFrom(_, _, _)
SwapOrder(a, start) ==
    IF start = Len(a) THEN <<a>> ELSE SwapOrderFrom(a, start, start)

SwapOrderFrom(a, start, i) ==
    IF i >= Len(a) THEN <<>>
    ELSE SwapOrder(Swap(a, start, i), start + 1) \o SwapOrderFrom(a, start, i + 1)

(* C8: for a list of k pairwise distinct elements, permutations returns    *)
(* exactly k! lists, pairwise distinct, together covering every            *)
(* rearrangement of the input, in swap order.                              *)
C8_PermutationsExact ==
    (pm.pc = "done") =>
        /\ Len(pm.result) = Factorial(Len(pm.nums0))
        /\ Cardinality(SeqRange(pm.result)) = Len(pm.result)
        /\ SeqRange(pm.result) = Rearrangements(pm.nums0)
        /\ pm.result = SwapOrder(pm.nums0, 0)
        /\ (pm.nums0 = <<1, 2, 3>> =>
               pm.result = << <<1, 2, 3>>, <<1, 3, 2>>, <<2, 1, 3>>,
                              <<2, 3, 1>>, <<3, 2, 1>>, <<3, 1, 2>> >>)

C8_Witness ==
    /\ pm.pc = "done" /\ pm.nums0 = <<1, 2, 3>> /\ Len(pm.result) = 6
    /\ pm.result[5] = <<3, 2, 1>>

----------------------------------------------------------------------------
(* sudoku_solver                                                           *)

SDMaxHoles == 5

sdOthers == <<nq, ss, cs, pm, ws, ms,
              kt, pa, sp, rm, hc, pp, others>>

SDCells == (0..8) \X (0..8)

(* A list of nine rows as a board: Grid(rows)[<<r, c>>] is rows[r][c].     *)
Grid(rows) == [cell \in SDCells |-> rows[cell[1] + 1][cell[2] + 1]]

(* The puzzle solved in main().                                            *)
SDDemo ==
    Grid(<< <<5, 3, 0, 0, 7, 0, 0, 0, 0>>,
            <<6, 0, 0, 1, 9, 5, 0, 0, 0>>,
            <<0, 9, 8, 0, 0, 0, 0, 6, 0>>,
            <<8, 0, 0, 0, 6, 0, 0, 0, 3>>,
            <<4, 0, 0, 8, 0, 3, 0, 0, 1>>,
            <<7, 0, 0, 0, 2, 0, 0, 0, 6>>,
            <<0, 6, 0, 0, 0, 0, 2, 8, 0>>,
            <<0, 0, 0, 4, 1, 9, 0, 0, 5>>,
            <<0, 0, 0, 0, 8, 0, 0, 7, 9>> >>)

(* The completion of that puzzle: the base of the other input boards.      *)
SDSolved ==
    Grid(<< <<5, 3, 4, 6, 7, 8, 9, 1, 2>>,
            <<6, 7, 2, 1, 9, 5, 3, 4, 8>>,
            <<1, 9, 8, 3, 4, 2, 5, 6, 7>>,
            <<8, 5, 9, 7, 6, 1, 4, 2, 3>>,
            <<4, 2, 6, 8, 5, 3, 7, 9, 1>>,
            <<7, 1, 3, 9, 2, 4, 8, 5, 6>>,
            <<9, 6, 1, 5, 3, 7, 2, 8, 4>>,
            <<2, 8, 7, 4, 1, 9, 6, 3, 5>>,
            <<3, 4, 5, 2, 8, 6, 1, 7, 9>> >>)

(* The cells that may be emptied (the first SDMaxHoles of them): the first *)
(* four form a rectangle whose two digits can be exchanged, so a board     *)
(* with all four empty has two completions.                                *)
SDHoleList ==
    << <<2, 4>>, <<2, 5>>, <<5, 4>>, <<5, 5>>, <<7, 3>>, <<8, 8>>, <<0, 0>>,
       <<4, 4>>, <<1, 6>> >>

SDHoleCells ==
    {SDHoleList[k] : k \in 1..(IF SDMaxHoles < Len(SDHoleList)
                               THEN SDMaxHoles ELSE Len(SDHoleList))}

(* Givens overwritten to make boards without a completion, and one value   *)
(* outside 0..9 that the validator rejects.                                *)
SDOverrides ==
    {[cell |-> <<0, 8>>, d |-> 5], [cell |-> <<2, 3>>, d |-> 4],
     [cell |-> <<5, 3>>, d |-> 2], [cell |-> <<3, 3>>, d |-> 10]}

SDInputs ==
    {SDDemo} \cup
    {[cell \in SDCells |-> IF cell \in H THEN 0 ELSE SDSolved[cell]] :
        H \in SUBSET SDHoleCells} \cup
    {[cell \in SDCells |-> IF cell \in H THEN 0
                           ELSE IF cell = o.cell THEN o.d ELSE SDSolved[cell]] :
        H \in SUBSET SDHoleCells, o \in SDOverrides}

(* board0 records the board as it was at the call, for stating what the    *)
(* call did to it; ret is the value returned by the solve_sudoku call that *)
(* returned last.                                                          *)
SDInit ==
    /\ sd \in {[pc |-> "start", board |-> b, board0 |-> b, stack |-> <<>>,
                ret |-> FALSE, result |-> FALSE] : b \in SDInputs}
    /\ nq = Idle /\ ss = Idle /\ cs = Idle /\ pm = Idle /\ ws = Idle /\ ms = Idle
    /\ kt = Idle /\ pa = Idle /\ sp = Idle /\ rm = Idle /\ hc = Idle /\ pp = Idle
    /\ OthersIdle

(* The validator: every modelled board has nine rows of nine integer       *)
(* cells, which leaves the range test 0 <= cell <= 9.                      *)
SDWellFormed(board) == \A cell \in SDCells : 0 <= board[cell] /\ board[cell] <= 9

(* is_valid without the column test.                                       *)
sd_is_valid_no_column(board, num, row, col) ==
    /\ \A i \in 0..8 : ~(board[<<row, i>>] = num)
    /\ LET start_row == 3 * (row \div 3)
           start_col == 3 * (col \div 3)
       IN  \A i \in 0..2 : \A j \in 0..2 :
               board[<<start_row + i, start_col + j>>] # num

sd_is_valid(board, num, row, col) ==
    /\ \A i \in 0..8 : ~(board[<<row, i>>] = num \/ board[<<i, col>>] = num)
    /\ LET start_row == 3 * (row \div 3)
           start_col == 3 * (col \div 3)
       IN  \A i \in 0..2 : \A j \in 0..2 :
               board[<<start_row + i, start_col + j>>] # num

(* The first empty cell in the order of the two for loops of solve_sudoku. *)
SDEmpty(board) == {cell \in SDCells : board[cell] = 0}

SDFirstEmpty(board) ==
    CHOOSE cell \in SDEmpty(board) :
        \A other \in SDEmpty(board) :
            \/ cell[1] < other[1]
            \/ cell[1] = other[1] /\ cell[2] <= other[2]

(* What sudoku_solver returns whatever solve_sudoku returned.              *)
SDResult(ret) == TRUE

SD_Call ==
    /\ sd.pc = "start"
    /\ sd' = IF ~SDWellFormed(sd.board)
             THEN [sd EXCEPT !.pc = "ValueError"]
             ELSE [sd EXCEPT !.pc = "running",
                             !.stack = <<[row |-> 0, col |-> 0, num |-> 1,
                                          pc |-> "entry"]>>]
    /\ UNCHANGED sdOthers

(* Entry of solve_sudoku: the scan for the first empty cell; return True   *)
(* when there is none, otherwise start the loop over num at 1.             *)
SD_Scan ==
    /\ sd.pc = "running" /\ sd.stack # <<>> /\ Top(sd.stack).pc = "entry"
    /\ sd' = IF SDEmpty(sd.board) = {}
             THEN [sd EXCEPT !.stack = Pop(@), !.ret = TRUE]
             ELSE LET cell == SDFirstEmpty(sd.board) IN
                  [sd EXCEPT !.stack = SetTop(@, [row |-> cell[1], col |-> cell[2],
                                                  num |-> 1, pc |-> "loop"])]
    /\ UNCHANGED sdOthers

(* One iteration of for num in range(1, 10): a valid num is written and    *)
(* solve_sudoku is called; an invalid one is skipped; the exhausted loop   *)
(* returns False.                                                          *)
SD_Loop ==
    /\ sd.pc = "running" /\ sd.stack # <<>> /\ Top(sd.stack).pc = "loop"
    /\ LET f == Top(sd.stack) IN
       sd' = IF f.num = 10
             THEN [sd EXCEPT !.stack = Pop(@), !.ret = FALSE]
             ELSE IF sd_is_valid(sd.board, f.num, f.row, f.col)
             THEN [sd EXCEPT !.board[<<f.row, f.col>>] = f.num,
                             !.stack = Append(SetTop(@, [f EXCEPT !.pc = "after"]),
                                              [row |-> 0, col |-> 0, num |-> 1,
                                               pc |-> "entry"])]
             ELSE [sd EXCEPT !.stack = SetTop(@, [f EXCEPT !.num = @ + 1])]
    /\ UNCHANGED sdOthers

(* After the child call: return True if it did, otherwise empty the cell   *)
(* again and go on with the next num.                                      *)
SD_After ==
    /\ sd.pc = "running" /\ sd.stack # <<>> /\ Top(sd.stack).pc = "after"
    /\ LET f == Top(sd.stack) IN
       sd' = IF sd.ret
             THEN [sd EXCEPT !.stack = Pop(@), !.ret = TRUE]
             ELSE [sd EXCEPT !.board[<<f.row, f.col>>] = 0,
                             !.stack = SetTop(@, [f EXCEPT !.num = @ + 1,
                                                           !.pc = "loop"])]
    /\ UNCHANGED sdOthers

(* The outermost solve_sudoku() has returned: its value is dropped and     *)
(* sudoku_solver returns True.                                             *)
SD_Return ==
    /\ sd.pc = "running" /\ sd.stack = <<>>
    /\ sd' = [sd EXCEPT !.pc = "done", !.result = SDResult(sd.ret)]
    /\ UNCHANGED sdOthers

SDNext == SD_Call \/ SD_Scan \/ SD_Loop \/ SD_After \/ SD_Return

SpecSD == SDInit /\ [][SDNext]_vars

(* Reference notions for the claims about sudoku_solver.  The 27 units of  *)
(* the grid: rows, columns and 3x3 boxes.                                  *)
SDUnits ==
    {{<<r, c>> : c \in 0..8} : r \in 0..8} \cup
    {{<<r, c>> : r \in 0..8} : c \in 0..8} \cup
    {{<<3 * br + i, 3 * bc + j>> : i \in 0..2, j \in 0..2} :
        br \in 0..2, bc \in 0..2}

(* A full grid in which every unit holds each digit 1..9 exactly once.     *)
SDValidFull(g) == \A u \in SDUnits : {g[cell] : cell \in u} = 1..9

(* g completes b: it is a valid full grid that keeps every non-zero cell.  *)
SDIsCompletion(g, b) ==
    SDValidFull(g) /\ \A cell \in SDCells : b[cell] # 0 => g[cell] = b[cell]

(* d is not yet in a unit of the cell.                                     *)
SDFree(b, cell, d) ==
    \A u \in SDUnits : cell \in u => \A other \in u : b[other] # d

(* Whether some assignment of the 0 cells of b gives a valid full grid: a  *)
(* digit already present in a unit of a cell is in no completion.          *)
RECURSIVE SDHasCompletion(_)
SDHasCompletion(b) ==
    IF SDEmpty(b) = {} THEN SDValidFull(b)
    ELSE LET cell == CHOOSE x \in SDEmpty(b) : TRUE
         IN  \E d \in 1..9 :
                SDFree(b, cell, d) /\ SDHasCompletion([b EXCEPT ![cell] = d])

(* C1: on a well-formed board that has no completion sudoku_solver returns *)
(* False (and raises no error).                                            *)
C1_UnsolvableReturnsFalse ==
    (sd.pc = "done" /\ ~SDHasCompletion(sd.board0)) => sd.result = FALSE

(* C2: on a board that has a completion, sudoku_solver leaves a board with *)
(* no 0 cell in which every row, column and box holds each digit 1..9      *)
(* exactly once and every cell that was non-zero at the call is unchanged. *)
C2_SolvableIsSolved ==
    (sd.pc = "done" /\ SDHasCompletion(sd.board0)) =>
        SDIsCompletion(sd.board, sd.board0)

(* A board with two completions has been solved, with the one that is not  *)
(* the base grid.                                                          *)
C2_Witness ==
    /\ sd.pc = "done" /\ Cardinality(SDEmpty(sd.board0)) >= 4
    /\ SDIsCompletion(sd.board, sd.board0)
    /\ SDIsCompletion(SDSolved, sd.board0)
    /\ sd.board # SDSolved

----------------------------------------------------------------------------
(* word_search                                                             *)

WSMaxCells == 4

WSMaxWordLen == 3

wsOthers == <<nq, sd, ss, cs, pm, ms,
              kt, pa, sp, rm, hc, pp, others>>

(* The characters of the modelled boards and words: an ordinary letter and *)
(* the character the search uses as its visited mark.                      *)
WSChars == {"a", "#"}

(* The lists of non-empty rows with at most WSMaxCells cells in all: the   *)
(* validator does not compare the lengths of the rows.  The empty board    *)
(* and the board with one empty row are the inputs of the early return.    *)
RECURSIVE WSBoards(_)
WSBoards(cells) ==
    {<<>>} \cup
    UNION {{<<row>> \o rest : row \in [1..k -> WSChars],
                              rest \in WSBoards(cells - k)} : k \in 1..cells}

WSInputs ==
    {[board |-> b, word |-> w] :
        b \in WSBoards(WSMaxCells) \cup {<< <<>> >>},
        w \in UNION {[1..k -> WSChars] : k \in 0..WSMaxWordLen}}

(* board0 records the board as it was at the call; ret is the value        *)
(* returned by the backtrack call that returned last; i, j are the loop    *)
(* variables of the scan over the start cells.                             *)
WSInit ==
    /\ ws \in {[pc |-> "start", board |-> in.board, board0 |-> in.board,
                word |-> in.word, rows |-> 0, cols |-> 0, i |-> 0, j |-> 0,
                stack |-> <<>>, ret |-> FALSE, result |-> FALSE] :
               in \in WSInputs}
    /\ nq = Idle /\ sd = Idle /\ ss = Idle /\ cs = Idle /\ pm = Idle /\ ms = Idle
    /\ kt = Idle /\ pa = Idle /\ sp = Idle /\ rm = Idle /\ hc = Idle /\ pp = Idle
    /\ OthersIdle

(* The four calls of the found = ... or ... expression, in order.          *)
WSNeighbour(r, c, k) ==
    CASE k = 0 -> <<r + 1, c>>
      [] k = 1 -> <<r - 1, c>>
      [] k = 2 -> <<r, c + 1>>
      [] k = 3 -> <<r, c - 1>>

(* The validation accepts every modelled input (lists of one-character     *)
(* strings, a string word); an empty board, first row or word returns      *)
(* False; otherwise rows, cols are taken and the scan starts at (0, 0).    *)
WS_Call ==
    /\ ws.pc = "start"
    /\ ws' = IF ws.board = <<>> \/ ws.board[1] = <<>> \/ ws.word = <<>>
             THEN [ws EXCEPT !.pc = "done", !.result = FALSE]
             ELSE [ws EXCEPT !.pc = "scan", !.rows = Len(ws.board),
                             !.cols = Len(ws.board[1])]
    /\ UNCHANGED wsOthers

(* for i in range(rows): for j in range(cols): the call backtrack(i, j, 0); *)
(* return False once every start cell has been tried.                      *)
WS_ScanCall ==
    /\ ws.pc = "scan"
    /\ ws' = IF ws.i >= ws.rows
             THEN [ws EXCEPT !.pc = "done", !.result = FALSE]
             ELSE [ws EXCEPT !.pc = "running",
                             !.stack = <<[r |-> ws.i, c |-> ws.j, index |-> 0,
                                          k |-> 0, temp |-> "", pc |-> "entry"]>>]
    /\ UNCHANGED wsOthers

(* backtrack(i, j, 0) has returned: return True if it did, otherwise go on *)
(* with the next start cell.                                               *)
WS_ScanAfter ==
    /\ ws.pc = "running" /\ ws.stack = <<>>
    /\ ws' = IF ws.ret
             THEN [ws EXCEPT !.pc = "done", !.result = TRUE]
             ELSE IF ws.j + 1 < ws.cols
             THEN [ws EXCEPT !.pc = "scan", !.j = @ + 1]
             ELSE [ws EXCEPT !.pc = "scan", !.i = @ + 1, !.j = 0]
    /\ UNCHANGED wsOthers

(* Whether the cell fails the entry test of backtrack.  board[r][c] is     *)
(* read only when r and c are inside rows x cols.                          *)
WSOutside(r, c) == r < 0 \/ c < 0 \/ r >= ws.rows \/ c >= ws.cols

(* Entry of backtrack: True when the whole word is matched; False outside  *)
(* the board or on another character; otherwise the cell is saved in temp  *)
(* and marked "#".  Reading board[r][c] beyond the end of a shorter row    *)
(* raises IndexError, which propagates out of word_search.                 *)
WS_Entry ==
    /\ ws.pc = "running" /\ ws.stack # <<>> /\ Top(ws.stack).pc = "entry"
    /\ LET f == Top(ws.stack) IN
       ws' = IF f.index = Len(ws.word)
             THEN [ws EXCEPT !.stack = Pop(@), !.ret = TRUE]
             ELSE IF WSOutside(f.r, f.c)
             THEN [ws EXCEPT !.stack = Pop(@), !.ret = FALSE]
             ELSE IF f.c >= Len(ws.board[f.r + 1])
             THEN [ws EXCEPT !.pc = "IndexError"]
             ELSE IF ws.board[f.r + 1][f.c + 1] # ws.word[f.index + 1]
             THEN [ws EXCEPT !.stack = Pop(@), !.ret = FALSE]
             ELSE [ws EXCEPT !.board[f.r + 1][f.c + 1] = "#",
                             !.stack = SetTop(@, [f EXCEPT
                                 !.temp = ws.board[f.r + 1][f.c + 1],
                                 !.pc = "branch"])]
    /\ UNCHANGED wsOthers

(* The k-th operand of the or-expression: backtrack on the k-th neighbour. *)
WS_Branch ==
    /\ ws.pc = "running" /\ ws.stack # <<>> /\ Top(ws.stack).pc = "branch"
    /\ LET f == Top(ws.stack)
           n == WSNeighbour(f.r, f.c, f.k)
       IN  ws' = [ws EXCEPT !.stack =
                     Append(SetTop(@, [f EXCEPT !.pc = "after"]),
                            [r |-> n[1], c |-> n[2], index |-> f.index + 1,
                             k |-> 0, temp |-> "", pc |-> "entry"])]
    /\ UNCHANGED wsOthers

(* The operand has been evaluated: the or-expression stops at the first    *)
(* True and after the fourth operand; then board[r][c] = temp and found is *)
(* returned.  Otherwise the next operand is evaluated.                     *)
WS_After ==
    /\ ws.pc = "running" /\ ws.stack # <<>> /\ Top(ws.stack).pc = "after"
    /\ LET f == Top(ws.stack) IN
       ws' = IF ws.ret \/ f.k = 3
             THEN [ws EXCEPT !.board[f.r + 1][f.c + 1] = f.temp,
                             !.stack = Pop(@)]
             ELSE [ws EXCEPT !.stack = SetTop(@, [f EXCEPT !.k = @ + 1,
                                                           !.pc = "branch"])]
    /\ UNCHANGED wsOthers

WSNext ==
    WS_Call \/ WS_ScanCall \/ WS_ScanAfter \/ WS_Entry \/ WS_Branch \/ WS_After

SpecWS == WSInit /\ [][WSNext]_vars

(* Reference notions for the claims about word_search: a board all of      *)
(* whose rows have the length of the first, its cells, 4-adjacency.        *)
WSRectangular(b) == \A r \in 1..Len(b) : Len(b[r]) = Len(b[1])

WSCellsOf(b) == {<<r, c>> : r \in 0..(Len(b) - 1), c \in 0..(Len(b[1]) - 1)}

WSAdjacent(x, y) ==
    \/ x[1] = y[1] /\ (x[2] - y[2] = 1 \/ y[2] - x[2] = 1)
    \/ x[2] = y[2] /\ (x[1] - y[1] = 1 \/ y[1] - x[1] = 1)

(* Some sequence of pairwise distinct cells of b, each 4-adjacent to the   *)
(* previous one, spells w.                                                 *)
WSHasPath(b, w) ==
    \E p \in [1..Len(w) -> WSCellsOf(b)] :
        /\ \A m, n \in 1..Len(w) : m # n => p[m] # p[n]
        /\ \A m \in 1..(Len(w) - 1) : WSAdjacent(p[m], p[m + 1])
        /\ \A m \in 1..Len(w) : b[p[m][1] + 1][p[m][2] + 1] = w[m]

(* C9: on a board with rows of equal length (any characters, "#" included) *)
(* and a non-empty word, word_search returns True exactly when pairwise    *)
(* distinct cells, each 4-adjacent to the previous one, spell the word.    *)
C9_FoundIffSimplePath ==
    (/\ ws.pc = "done" /\ ws.board0 # <<>> /\ ws.board0[1] # <<>>
     /\ WSRectangular(ws.board0) /\ ws.word # <<>>) =>
        (ws.result <=> WSHasPath(ws.board0, ws.word))

----------------------------------------------------------------------------
(* magic_square                                                            *)

msOthers == <<nq, sd, ss, cs, pm, ws,
              kt, pa, sp, rm, hc, pp, others>>

(* The sizes called with: the two rejected by the validation, the sizes 1  *)
(* and 3 that have a magic square (3 is the call of main()) and the size 2 *)
(* that has none.                                                          *)
MSInputs == {-1, 0, 1, 2, 3}

MSInit ==
    /\ ms \in {[pc |-> "start", n |-> n, magic_sum |-> 0, square |-> <<>>,
                used |-> {}, stack |-> <<>>, ret |-> FALSE, result |-> <<>>] :
               n \in MSInputs}
    /\ nq = Idle /\ sd = Idle /\ ss = Idle /\ cs = Idle /\ pm = Idle /\ ws = Idle
    /\ kt = Idle /\ pa = Idle /\ sp = Idle /\ rm = Idle /\ hc = Idle /\ pp = Idle
    /\ OthersIdle

MSCell(square, r, c) == square[r + 1][c + 1]

MSPut(square, r, c, v) == [square EXCEPT ![r + 1][c + 1] = v]

(* The four lines tested by is_valid, as sequences of 0-based cells.       *)
MSRowLine(n, row) == [k \in 1..n |-> <<row, k - 1>>]

MSColLine(n, col) == [k \in 1..n |-> <<k - 1, col>>]

MSDiagLine(n) == [k \in 1..n |-> <<k - 1, k - 1>>]

MSAntiLine(n) == [k \in 1..n |-> <<k - 1, n - 1 - (k - 1)>>]

(* all(cell != 0 ...) over a line, and sum(...) != magic_sum.              *)
MSFull(square, line) ==
    \A k \in 1..Len(line) : MSCell(square, line[k][1], line[k][2]) # 0

MSLineSum(square, line) ==
    SeqSum([k \in 1..Len(line) |-> MSCell(square, line[k][1], line[k][2])])

MSBadLine(square, line, magic_sum) ==
    MSFull(square, line) /\ MSLineSum(square, line) # magic_sum

(* is_valid without the test of the anti-diagonal.                         *)
ms_is_valid_no_antidiagonal(square, used, n, magic_sum, row, col, num) ==
    IF num \in used
    THEN [ok |-> FALSE, square |-> square, used |-> used]
    ELSE LET placed == MSPut(square, row, col, num)
             undone == [ok |-> FALSE, square |-> MSPut(placed, row, col, 0),
                        used |-> (used \cup {num}) \ {num}]
         IN  IF MSBadLine(placed, MSRowLine(n, row), magic_sum) THEN undone
             ELSE IF MSBadLine(placed, MSColLine(n, col), magic_sum) THEN undone
             ELSE IF row = col /\ MSBadLine(placed, MSDiagLine(n), magic_sum)
             THEN undone
             ELSE [ok |-> TRUE, square |-> placed, used |-> used \cup {num}]

(* is_valid(row, col, num): its verdict and the square and used set it     *)
(* leaves.  A used num is refused untouched; otherwise num is written and  *)
(* added to used, and taken back (cell = 0, used.remove) if a line that is *)
(* now full has the wrong sum: the row, the column, the diagonal when      *)
(* row == col, the anti-diagonal when row + col == n - 1.                  *)
ms_is_valid(square, used, n, magic_sum, row, col, num) ==
    IF num \in used
    THEN [ok |-> FALSE, square |-> square, used |-> used]
    ELSE LET placed == MSPut(square, row, col, num)
             undone == [ok |-> FALSE, square |-> MSPut(placed, row, col, 0),
                        used |-> (used \cup {num}) \ {num}]
         IN  IF MSBadLine(placed, MSRowLine(n, row), magic_sum) THEN undone
             ELSE IF MSBadLine(placed, MSColLine(n, col), magic_sum) THEN undone
             ELSE IF row = col /\ MSBadLine(placed, MSDiagLine(n), magic_sum)
             THEN undone
             ELSE IF /\ row + col = n - 1
                     /\ MSBadLine(placed, MSAntiLine(n), magic_sum)
             THEN undone
             ELSE [ok |-> TRUE, square |-> placed, used |-> used \cup {num}]

(* The validation, then magic_sum, the all-zero square, the empty used set *)
(* and the call backtrack(0, 0).                                           *)
MS_Call ==
    /\ ms.pc = "start"
    /\ ms' = IF ms.n <= 0
             THEN [ms EXCEPT !.pc = "ValueError"]
             ELSE [ms EXCEPT !.pc = "running",
                             !.magic_sum = (ms.n * (ms.n * ms.n + 1)) \div 2,
                             !.square = [r \in 1..ms.n |-> [c \in 1..ms.n |-> 0]],
                             !.used = {},
                             !.stack = <<[row |-> 0, col |-> 0, num |-> 1,
                                          pc |-> "entry"]>>]
    /\ UNCHANGED msOthers

(* Entry of backtrack: True when row == n, otherwise the loop over num     *)
(* starts at 1.                                                            *)
MS_Entry ==
    /\ ms.pc = "running" /\ ms.stack # <<>> /\ Top(ms.stack).pc = "entry"
    /\ ms' = IF Top(ms.stack).row = ms.n
             THEN [ms EXCEPT !.stack = Pop(@), !.ret = TRUE]
             ELSE [ms EXCEPT !.stack = SetTop(@, [Top(@) EXCEPT !.pc = "loop"])]
    /\ UNCHANGED msOthers

(* One iteration of for num in range(1, n * n + 1): is_valid acts on the   *)
(* square and the used set; when it accepts, backtrack is called on the    *)
(* next cell; the exhausted loop returns False.                            *)
MS_Loop ==
    /\ ms.pc = "running" /\ ms.stack # <<>> /\ Top(ms.stack).pc = "loop"
    /\ LET f == Top(ms.stack)
           v == ms_is_valid(ms.square, ms.used, ms.n, ms.magic_sum,
                            f.row, f.col, f.num)
           next == IF f.col + 1 < ms.n THEN <<f.row, f.col + 1>>
                                       ELSE <<f.row + 1, 0>>
       IN  ms' = IF f.num > ms.n * ms.n
                 THEN [ms EXCEPT !.stack = Pop(@), !.ret = FALSE]
                 ELSE IF v.ok
                 THEN [ms EXCEPT !.square = v.square, !.used = v.used,
                                 !.stack = Append(SetTop(@, [f EXCEPT !.pc = "after"]),
                                                  [row |-> next[1], col |-> next[2],
                                                   num |-> 1, pc |-> "entry"])]
                 ELSE [ms EXCEPT !.square = v.square, !.used = v.used,
                                 !.stack = SetTop(@, [f EXCEPT !.num = @ + 1])]
    /\ UNCHANGED msOthers

(* After the child call: return True if it did (nothing is undone),        *)
(* otherwise empty the cell, used.remove(num), and go on with the next     *)
(* num.                                                                    *)
MS_After ==
    /\ ms.pc = "running" /\ ms.stack # <<>> /\ Top(ms.stack).pc = "after"
    /\ LET f == Top(ms.stack) IN
       ms' = IF ms.ret
             THEN [ms EXCEPT !.stack = Pop(@)]
             ELSE [ms EXCEPT !.square = MSPut(@, f.row, f.col, 0),
                             !.used = @ \ {f.num},
                             !.stack = SetTop(@, [f EXCEPT !.num = @ + 1,
                                                           !.pc = "loop"])]
    /\ UNCHANGED msOthers

(* backtrack(0, 0) has returned: its value is dropped; return square.      *)
MS_Return ==
    /\ ms.pc = "running" /\ ms.stack = <<>>
    /\ ms' = [ms EXCEPT !.pc = "done", !.result = ms.square]
    /\ UNCHANGED msOthers

MSNext == MS_Call \/ MS_Entry \/ MS_Loop \/ MS_After \/ MS_Return

SpecMS == MSInit /\ [][MSNext]_vars

(* Reference notion for the claims about magic_square.                     *)
(* An n x n grid holding each of 1..n*n exactly once whose rows, columns   *)
(* and two diagonals all sum to n*(n*n+1)/2.                               *)
IsMagicSquare(g, n) ==
    LET cells == (1..n) \X (1..n)
        sum   == (n * (n * n + 1)) \div 2
    IN  /\ Len(g) = n
        /\ \A r \in 1..n : Len(g[r]) = n
        /\ \A v \in 1..(n * n) :
               Cardinality({x \in cells : g[x[1]][x[2]] = v}) = 1
        /\ \A r \in 1..n : SeqSum(g[r]) = sum
        /\ \A c \in 1..n : SeqSum([r \in 1..n |-> g[r][c]]) = sum
        /\ SeqSum([k \in 1..n |-> g[k][k]]) = sum
        /\ SeqSum([k \in 1..n |-> g[k][n + 1 - k]]) = sum

(* C10: for n = 1 and n = 3, magic_square(n) returns an n x n grid that    *)
(* holds each integer 1..n*n exactly once and whose rows, columns and two  *)
(* diagonals all sum to n*(n*n+1)/2.                                       *)
C10_MagicSquareFound ==
    (ms.pc = "done" /\ ms.n \in {1, 3}) => IsMagicSquare(ms.result, ms.n)

C10_Witness ==
    /\ ms.pc = "done" /\ ms.n = 3
    /\ ms.result = << <<2, 7, 6>>, <<9, 5, 1>>, <<4, 3, 8>> >>

(* C11: for n = 2, for which no magic square exists, magic_square returns  *)
(* an empty result and not a populated n x n grid (and raises no error).   *)
C11_NoSquareReturnsEmpty ==
    (ms.pc = "done" /\ ms.n = 2) => ms.result = <<>>

----------------------------------------------------------------------------
(* knights_tour                                                            *)

ktOthers == <<nq, sd, ss, cs, pm, ws, ms, pa, sp, rm, hc, pp, others>>

(* The sizes called with: two rejected by the validation, and 1..5 (5 is   *)
(* the call of main()).                                                    *)
KTInputs == (-1)..5

KTInit ==
    /\ kt \in {[pc |-> "start", n |-> n, board |-> <<>>, path |-> <<>>,
                stack |-> <<>>, ret |-> FALSE, result |-> <<>>] :
               n \in KTInputs}
    /\ nq = Idle /\ sd = Idle /\ ss = Idle /\ cs = Idle /\ pm = Idle /\ ws = Idle
    /\ ms = Idle /\ pa = Idle /\ sp = Idle /\ rm = Idle /\ hc = Idle /\ pp = Idle
    /\ OthersIdle

(* The list moves, in its order.                                           *)
kt_moves ==
    << <<2, 1>>, <<1, 2>>, <<-1, 2>>, <<-2, 1>>,
       <<-2, -1>>, <<-1, -2>>, <<1, -2>>, <<2, -1>> >>

(* is_valid without the test that the square is unvisited.                 *)
kt_is_valid_ignoring_visits(board, n, x, y) ==
    0 <= x /\ x < n /\ 0 <= y /\ y < n

kt_is_valid(board, n, x, y) ==
    0 <= x /\ x < n /\ 0 <= y /\ y < n /\ board[x + 1][y + 1] = -1

(* The reset forgotten when every move from the square has failed.         *)
kt_unmark_missing(board, x, y) == board

(* board[x][y] = -1 when every move from the square has failed.            *)
kt_unmark(board, x, y) == [board EXCEPT ![x + 1][y + 1] = -1]

(* The validation, then the board of -1, the empty path and the call       *)
(* backtrack(0, 0, 0).                                                     *)
KT_Call ==
    /\ kt.pc = "start"
    /\ kt' = IF kt.n <= 0
             THEN [kt EXCEPT !.pc = "ValueError"]
             ELSE [kt EXCEPT !.pc = "running",
                             !.board = [x \in 1..kt.n |-> [y \in 1..kt.n |-> -1]],
                             !.path = <<>>,
                             !.stack = <<[x |-> 0, y |-> 0, move_count |-> 0,
                                          m |-> 0, pc |-> "entry"]>>]
    /\ UNCHANGED ktOthers

(* Entry of backtrack: the square gets its move index and joins the path;  *)
(* True when move_count == n * n - 1, otherwise the loop over moves.       *)
KT_Entry ==
    /\ kt.pc = "running" /\ kt.stack # <<>> /\ Top(kt.stack).pc = "entry"
    /\ LET f == Top(kt.stack) IN
       kt' = IF f.move_count = kt.n * kt.n - 1
             THEN [kt EXCEPT !.board[f.x + 1][f.y + 1] = f.move_count,
                             !.path = Append(@, <<f.x, f.y>>),
                             !.stack = Pop(@), !.ret = TRUE]
             ELSE [kt EXCEPT !.board[f.x + 1][f.y + 1] = f.move_count,
                             !.path = Append(@, <<f.x, f.y>>),
                             !.stack = SetTop(@, [f EXCEPT !.pc = "loop"])]
    /\ UNCHANGED ktOthers

(* One iteration of for dx, dy in moves: backtrack is called on a valid    *)
(* target square; after the last move the square is unmarked, the path     *)
(* popped and False returned.                                              *)
KT_Loop ==
    /\ kt.pc = "running" /\ kt.stack # <<>> /\ Top(kt.stack).pc = "loop"
    /\ LET f == Top(kt.stack) IN
       kt' = IF f.m >= Len(kt_moves)
             THEN [kt EXCEPT !.board = kt_unmark(@, f.x, f.y),
                             !.path = Pop(@),
                             !.stack = Pop(@), !.ret = FALSE]
             ELSE LET nx == f.x + kt_moves[f.m + 1][1]
                      ny == f.y + kt_moves[f.m + 1][2]
                  IN  IF kt_is_valid(kt.board, kt.n, nx, ny)
                      THEN [kt EXCEPT !.stack =
                               Append(SetTop(@, [f EXCEPT !.pc = "after"]),
                                      [x |-> nx, y |-> ny,
                                       move_count |-> f.move_count + 1,
                                       m |-> 0, pc |-> "entry"])]
                      ELSE [kt EXCEPT !.stack = SetTop(@, [f EXCEPT !.m = @ + 1])]
    /\ UNCHANGED ktOthers

(* After the child call: return True if it did (nothing is undone),        *)
(* otherwise go on with the next move.                                     *)
KT_After ==
    /\ kt.pc = "running" /\ kt.stack # <<>> /\ Top(kt.stack).pc = "after"
    /\ kt' = IF kt.ret
             THEN [kt EXCEPT !.stack = Pop(@)]
             ELSE [kt EXCEPT !.stack = SetTop(@, [Top(@) EXCEPT !.m = @ + 1,
                                                           !.pc = "loop"])]
    /\ UNCHANGED ktOthers

(* backtrack(0, 0, 0) has returned: return path if it returned True,       *)
(* otherwise [].                                                           *)
KT_Return ==
    /\ kt.pc = "running" /\ kt.stack = <<>>
    /\ kt' = [kt EXCEPT !.pc = "done",
                        !.result = IF kt.ret THEN kt.path ELSE <<>>]
    /\ UNCHANGED ktOthers

KTNext == KT_Call \/ KT_Entry \/ KT_Loop \/ KT_After \/ KT_Return

SpecKT == KTInit /\ [][KTNext]_vars

(* Reference notions for the claims about knights_tour.                    *)
KTSquares(n) == (0..(n - 1)) \X (0..(n - 1))

KTAbs(v) == IF v < 0 THEN -v ELSE v

KTKnightMove(a, b) ==
    {KTAbs(a[1] - b[1]), KTAbs(a[2] - b[2])} = {1, 2}

(* p visits every square of the n x n board once, from (0, 0), by knight   *)
(* moves.                                                                  *)
KTIsTour(p, n) ==
    /\ Len(p) = n * n
    /\ \A k \in 1..Len(p) : p[k] \in KTSquares(n)
    /\ \A j, k \in 1..Len(p) : j # k => p[j] # p[k]
    /\ p[1] = <<0, 0>>
    /\ \A k \in 1..(Len(p) - 1) : KTKnightMove(p[k], p[k + 1])

(* Whether the squares in visited, the last of them at, extend to a tour.  *)
RECURSIVE KTExtends(_, _, _)
KTExtends(n, visited, at) ==
    \/ visited = KTSquares(n)
    \/ \E next \in KTSquares(n) \ visited :
          KTKnightMove(at, next) /\ KTExtends(n, visited \cup {next}, next)

KTTourExists(n) == KTExtends(n, {<<0, 0>>}, <<0, 0>>)

(* C18: for n in 1..5, knights_tour(n) returns [] or n*n pairwise distinct *)
(* squares of the board that start at (0,0) and follow each other by       *)
(* knight moves; it is non-empty exactly when an open tour from (0,0)      *)
(* exists: for n = 1 and n = 5, not for n = 2, 3, 4.                       *)
C18_KnightsTour ==
    (kt.pc = "done") =>
        /\ IF kt.result = <<>>
           THEN ~KTTourExists(kt.n)
           ELSE KTIsTour(kt.result, kt.n)
        /\ (kt.n \in {1, 5} => kt.result # <<>>)
        /\ (kt.n \in {2, 3, 4} => kt.result = <<>>)

C18_Witness ==
    /\ kt.pc = "done" /\ kt.n = 5 /\ Len(kt.result) = 25
    /\ KTIsTour(kt.result, 5)

(* knights_tour and magic_square side by side: a behaviour is one call of  *)
(* either.                                                                 *)
KTMSInit == KTInit \/ MSInit

KTMSNext == KTNext \/ MSNext

SpecKTMS == KTMSInit /\ [][KTMSNext]_vars

(* Reference notions for the claims about the tracking structures.         *)
KTBoardClear ==
    \A x, y \in 1..kt.n : kt.board[x][y] = -1

KTBoardHoldsTour ==
    \A k \in 1..Len(kt.path) :
        kt.board[kt.path[k][1] + 1][kt.path[k][2] + 1] = k - 1

----------------------------------------------------------------------------
(* rat_in_maze                                                             *)

rmOthers == <<nq, sd, ss, cs, pm, ws, ms, kt, pa, sp, hc, pp, others>>

RMSquare(n, vals) == [1..n -> [1..n -> vals]]

(* The mazes called with: every 0/1 maze of side 1..3, the mazes of side   *)
(* 1 and 2 that also mark open cells with 2, and grids the validation      *)
(* rejects (empty, not square, ragged).                                    *)
RMInputs ==
    RMSquare(1, {0, 1, 2}) \cup RMSquare(2, {0, 1, 2}) \cup RMSquare(3, {0, 1})
    \cup {<<>>, << <<>> >>, << <<1, 1>> >>, << <<1>>, <<1>> >>,
          << <<1, 1>>, <<1>> >>}

(* maze0 records the maze as it was at the call.                           *)
RMInit ==
    /\ rm \in {[pc |-> "start", maze |-> m, maze0 |-> m, n |-> 0,
                path |-> <<>>, visited |-> <<>>, paths |-> <<>>,
                stack |-> <<>>, result |-> <<>>] : m \in RMInputs}
    /\ nq = Idle /\ sd = Idle /\ ss = Idle /\ cs = Idle /\ pm = Idle /\ ws = Idle
    /\ ms = Idle /\ kt = Idle /\ pa = Idle /\ sp = Idle /\ hc = Idle /\ pp = Idle
    /\ OthersIdle

(* The four recursive calls made right, down, up, left.                    *)
rm_dirs_right_first == << <<0, 1>>, <<1, 0>>, <<-1, 0>>, <<0, -1>> >>

(* The four recursive calls of backtrack, in their order: (r + 1, c),      *)
(* (r, c + 1), (r - 1, c), (r, c - 1).                                     *)
rm_dirs == << <<1, 0>>, <<0, 1>>, <<-1, 0>>, <<0, -1>> >>

(* The early-return test of backtrack.                                     *)
rm_rejected(maze, visited, n, r, c) ==
    \/ r < 0 \/ c < 0 \/ r >= n \/ c >= n
    \/ maze[r + 1][c + 1] = 0
    \/ visited[r + 1][c + 1]

(* The validation that rejects the empty grid only.                        *)
rm_malformed_empty_only(maze) == maze = <<>>

(* not maze, or some row whose length is not len(maze).                    *)
rm_malformed(maze) ==
    \/ maze = <<>>
    \/ \E k \in 1..Len(maze) : Len(maze[k]) # Len(maze)

(* The validation, then paths, visited and the call                        *)
(* backtrack(0, 0, [], visited).                                           *)
RM_Call ==
    /\ rm.pc = "start"
    /\ rm' = IF rm_malformed(rm.maze)
             THEN [rm EXCEPT !.pc = "ValueError"]
             ELSE LET n == Len(rm.maze) IN
                  [rm EXCEPT !.pc = "running", !.n = n,
                             !.paths = <<>>, !.path = <<>>,
                             !.visited = [r \in 1..n |-> [c \in 1..n |-> FALSE]],
                             !.stack = <<[r |-> 0, c |-> 0, k |-> 0,
                                          pc |-> "entry"]>>]
    /\ UNCHANGED rmOthers

(* Entry of backtrack: return on a rejected cell; otherwise the cell joins *)
(* the path and is marked; at the bottom-right cell a copy of the path is  *)
(* recorded and the cell is left again.                                    *)
RM_Entry ==
    /\ rm.pc = "running" /\ rm.stack # <<>> /\ Top(rm.stack).pc = "entry"
    /\ LET f == Top(rm.stack) IN
       rm' = IF rm_rejected(rm.maze, rm.visited, rm.n, f.r, f.c)
             THEN [rm EXCEPT !.stack = Pop(@)]
             ELSE IF f.r = rm.n - 1 /\ f.c = rm.n - 1
             THEN [rm EXCEPT !.paths = Append(@, Append(rm.path, <<f.r, f.c>>)),
                             !.stack = Pop(@)]
             ELSE [rm EXCEPT !.path = Append(@, <<f.r, f.c>>),
                             !.visited[f.r + 1][f.c + 1] = TRUE,
                             !.stack = SetTop(@, [f EXCEPT !.pc = "calls"])]
    /\ UNCHANGED rmOthers

(* The next of the four recursive calls; after the fourth the cell leaves  *)
(* the path and is unmarked.                                               *)
RM_Calls ==
    /\ rm.pc = "running" /\ rm.stack # <<>> /\ Top(rm.stack).pc = "calls"
    /\ LET f == Top(rm.stack) IN
       rm' = IF f.k >= Len(rm_dirs)
             THEN [rm EXCEPT !.path = Pop(@),
                             !.visited[f.r + 1][f.c + 1] = FALSE,
                             !.stack = Pop(@)]
             ELSE [rm EXCEPT !.stack =
                      Append(SetTop(@, [f EXCEPT !.k = @ + 1]),
                             [r |-> f.r + rm_dirs[f.k + 1][1],
                              c |-> f.c + rm_dirs[f.k + 1][2],
                              k |-> 0, pc |-> "entry"])]
    /\ UNCHANGED rmOthers

RM_Return ==
    /\ rm.pc = "running" /\ rm.stack = <<>>
    /\ rm' = [rm EXCEPT !.pc = "done", !.result = rm.paths]
    /\ UNCHANGED rmOthers

RMNext == RM_Call \/ RM_Entry \/ RM_Calls \/ RM_Return

SpecRM == RMInit /\ [][RMNext]_vars

(* Reference notions for the claims about rat_in_maze.                     *)
RMOpen(maze) ==
    {cell \in (0..(Len(maze) - 1)) \X (0..(Len(maze) - 1)) :
        maze[cell[1] + 1][cell[2] + 1] # 0}

RMAdjacent(a, b) ==
    \/ a[1] = b[1] /\ (a[2] - b[2]) \in {-1, 1}
    \/ a[2] = b[2] /\ (a[1] - b[1]) \in {-1, 1}

(* The simple paths through open cells that extend p to the bottom-right   *)
(* cell.                                                                   *)
RECURSIVE RMExtensions(_, _)
RMExtensions(maze, p) ==
    IF p[Len(p)] = <<Len(maze) - 1, Len(maze) - 1>> THEN {p}
    ELSE UNION {RMExtensions(maze, Append(p, cell)) :
                   cell \in {x \in RMOpen(maze) \ SeqRange(p) :
                                RMAdjacent(p[Len(p)], x)}}

RMSimplePaths(maze) ==
    IF <<0, 0>> \in RMOpen(maze) THEN RMExtensions(maze, << <<0, 0>> >>) ELSE {}

(* down 0, right 1, up 2, left 3                                           *)
RMStepRank(a, b) ==
    IF b[1] = a[1] + 1 THEN 0
    ELSE IF b[2] = a[2] + 1 THEN 1
    ELSE IF b[1] = a[1] - 1 THEN 2 ELSE 3

RMStepRanks(p) == [k \in 1..(Len(p) - 1) |-> RMStepRank(p[k], p[k + 1])]

(* C16: for a square maze of side 1..3, rat_in_maze returns exactly the    *)
(* simple paths of 4-adjacent open cells from (0,0) to (n-1,n-1), each     *)
(* once, in the order of a depth-first exploration that tries down, right, *)
(* up, left; [] when the start or the end is blocked, [[(0,0)]] for the    *)
(* open 1x1 maze.                                                          *)
C16_RatInMazePaths ==
    (rm.pc = "done") =>
        /\ SeqRange(rm.result) = RMSimplePaths(rm.maze0)
        /\ Distinct(rm.result)
        /\ \A k \in 1..(Len(rm.result) - 1) :
              LexLess(RMStepRanks(rm.result[k]), RMStepRanks(rm.result[k + 1]))
        /\ (rm.maze0[1][1] = 0 \/ rm.maze0[rm.n][rm.n] = 0 => rm.result = <<>>)
        /\ (rm.n = 1 /\ rm.maze0[1][1] # 0 => rm.result = << << <<0, 0>> >> >>)

C16_Witness ==
    /\ rm.pc = "done" /\ rm.n = 3 /\ Len(rm.result) >= 3
    /\ \E k \in 1..Len(rm.result) : Len(rm.result[k]) = 9

----------------------------------------------------------------------------
(* The solvers that work on the caller's own list or grid, side by side: a *)
(* behaviour is one call of word_search, permutations, rat_in_maze or      *)
(* sudoku_solver.                                                          *)
ArgInit == WSInit \/ PMInit \/ RMInit \/ SDInit

ArgNext == WSNext \/ PMNext \/ RMNext \/ SDNext

SpecArg == ArgInit /\ [][ArgNext]_vars

(* C13: the caller's argument is unchanged at the return of word_search    *)
(* (found or not), of permutations, of rat_in_maze, and of a sudoku_solver *)
(* search that found no solution.                                          *)
C13_ArgumentUnchanged ==
    /\ (ws.pc = "done" => ws.board = ws.board0)
    /\ (pm.pc = "done" => pm.nums = pm.nums0)
    /\ (rm.pc = "done" => rm.maze = rm.maze0)
    /\ (sd.pc = "done" /\ ~sd.ret => sd.board = sd.board0)

C13_Witness ==
    /\ pm.pc = "done" /\ Len(pm.nums0) = 3 /\ Len(pm.result) = 6
    /\ pm.nums = pm.nums0

----------------------------------------------------------------------------
(* all_possible_valid_parentheses                                          *)

PAMaxN == 4

paOthers == <<nq, sd, ss, cs, pm, ws, ms, kt, sp, rm, hc, pp, others>>

(* A string is the sequence of its characters.                             *)
PAInit ==
    /\ pa \in {[pc |-> "start", n |-> n, result |-> <<>>, stack |-> <<>>] :
               n \in (-1)..PAMaxN}
    /\ nq = Idle /\ sd = Idle /\ ss = Idle /\ cs = Idle /\ pm = Idle /\ ws = Idle
    /\ ms = Idle /\ kt = Idle /\ sp = Idle /\ rm = Idle /\ hc = Idle /\ pp = Idle
    /\ OthersIdle

(* The terminal test refusing the empty string.                            *)
pa_is_complete_nonempty(s, n) == Len(s) = 2 * n /\ s # <<>>

(* len(s) == 2 * n                                                         *)
pa_is_complete(s, n) == Len(s) = 2 * n

(* The closing test against n instead of left.                             *)
pa_may_close_upto_n(left, right, n) == right < n

(* right < left                                                            *)
pa_may_close(left, right, n) == right < left

PA_OpenFrame(f) ==
    [s |-> Append(f.s, "("), left |-> f.left + 1, right |-> f.right,
     pc |-> "entry"]

PA_CloseFrame(f) ==
    [s |-> Append(f.s, ")"), left |-> f.left, right |-> f.right + 1,
     pc |-> "entry"]

(* The validation, then result = [] and the call backtrack().              *)
PA_Call ==
    /\ pa.pc = "start"
    /\ pa' = IF pa.n < 0
             THEN [pa EXCEPT !.pc = "ValueError"]
             ELSE [pa EXCEPT !.pc = "running", !.result = <<>>,
                             !.stack = <<[s |-> <<>>, left |-> 0, right |-> 0,
                                          pc |-> "entry"]>>]
    /\ UNCHANGED paOthers

(* Entry of backtrack: a complete string is recorded; otherwise the call   *)
(* with "(" when left < n, or else straight on to the test for ")".        *)
PA_Entry ==
    /\ pa.pc = "running" /\ pa.stack # <<>> /\ Top(pa.stack).pc = "entry"
    /\ LET f == Top(pa.stack) IN
       pa' = IF pa_is_complete(f.s, pa.n)
             THEN [pa EXCEPT !.result = Append(@, f.s), !.stack = Pop(@)]
             ELSE IF f.left < pa.n
             THEN [pa EXCEPT !.stack =
                      Append(SetTop(@, [f EXCEPT !.pc = "close"]), PA_OpenFrame(f))]
             ELSE IF pa_may_close(f.left, f.right, pa.n)
             THEN [pa EXCEPT !.stack =
                      Append(SetTop(@, [f EXCEPT !.pc = "exit"]), PA_CloseFrame(f))]
             ELSE [pa EXCEPT !.stack = Pop(@)]
    /\ UNCHANGED paOthers

(* After the call with "(": the call with ")" when right < left.           *)
PA_Close ==
    /\ pa.pc = "running" /\ pa.stack # <<>> /\ Top(pa.stack).pc = "close"
    /\ LET f == Top(pa.stack) IN
       pa' = IF pa_may_close(f.left, f.right, pa.n)
             THEN [pa EXCEPT !.stack =
                      Append(SetTop(@, [f EXCEPT !.pc = "exit"]), PA_CloseFrame(f))]
             ELSE [pa EXCEPT !.stack = Pop(@)]
    /\ UNCHANGED paOthers

(* After the call with ")": backtrack returns.                             *)
PA_Exit ==
    /\ pa.pc = "running" /\ pa.stack # <<>> /\ Top(pa.stack).pc = "exit"
    /\ pa' = [pa EXCEPT !.stack = Pop(@)]
    /\ UNCHANGED paOthers

PA_Return ==
    /\ pa.pc = "running" /\ pa.stack = <<>>
    /\ pa' = [pa EXCEPT !.pc = "done"]
    /\ UNCHANGED paOthers

PANext == PA_Call \/ PA_Entry \/ PA_Close \/ PA_Exit \/ PA_Return

SpecPA == PAInit /\ [][PANext]_vars

(* Reference notions for the claims about all_possible_valid_parentheses.  *)
PACount(s, ch, k) == Cardinality({j \in 1..k : s[j] = ch})

PABalanced(s, n) ==
    /\ Len(s) = 2 * n
    /\ PACount(s, "(", Len(s)) = n /\ PACount(s, ")", Len(s)) = n
    /\ \A k \in 1..Len(s) : PACount(s, "(", k) >= PACount(s, ")", k)

PAAllBalanced(n) == {s \in [1..(2 * n) -> {"(", ")"}] : PABalanced(s, n)}

Catalan(n) == Factorial(2 * n) \div (Factorial(n) * Factorial(n + 1))

PARanks(s) == [k \in 1..Len(s) |-> IF s[k] = "(" THEN 0 ELSE 1]

(* C14: for n >= 0, all_possible_valid_parentheses(n) returns exactly the  *)
(* balanced strings of length 2n, without duplicates, Catalan(n) of them   *)
(* (5 for n = 3), in lexicographic order with "(" before ")".              *)
C14_BalancedExact ==
    (pa.pc = "done") =>
        /\ SeqRange(pa.result) = PAAllBalanced(pa.n)
        /\ Distinct(pa.result)
        /\ Len(pa.result) = Catalan(pa.n)
        /\ (pa.n = 3 => Len(pa.result) = 5)
        /\ \A k \in 1..(Len(pa.result) - 1) :
              LexLess(PARanks(pa.result[k]), PARanks(pa.result[k + 1]))

C14_Witness ==
    /\ pa.pc = "done" /\ pa.n = 3 /\ Len(pa.result) = 5
    /\ pa.result[5] = <<"(", ")", "(", ")", "(", ")">>

----------------------------------------------------------------------------
(* The solvers that take a possibly empty input, side by side: a behaviour *)
(* is one call of permutations, all_possible_valid_parentheses or          *)
(* subset_sum.                                                             *)
EmptyInit == PMInit \/ PAInit \/ SSInit

EmptyNext == PMNext \/ PANext \/ SSNext

SpecEmpty == EmptyInit /\ [][EmptyNext]_vars

(* Reference notion for the claims about how a call ends: it has returned  *)
(* or raised.                                                              *)
Finished(x) == x.pc \notin {"idle", "start", "running"}

(* C20: on empty inputs the call ends with the trivial result and not with *)
(* an error: permutations([]) = [[]], all_possible_valid_parentheses(0) =  *)
(* [""], subset_sum([], 0) = [[]] and subset_sum([], t) = [] for t # 0.    *)
C20_EmptyInputs ==
    /\ (Finished(pm) /\ pm.nums0 = <<>> =>
           pm.pc = "done" /\ pm.result = << <<>> >>)
    /\ (Finished(pa) /\ pa.n = 0 =>
           pa.pc = "done" /\ pa.result = << <<>> >>)
    /\ (Finished(ss) /\ ss.nums = <<>> =>
           /\ ss.pc = "done"
           /\ ss.result = IF ss.target = 0 THEN << <<>> >> ELSE <<>>)

C20_Witness ==
    /\ pa.pc = "done" /\ pa.n = 0 /\ pa.result = << <<>> >>

----------------------------------------------------------------------------
(* string_pattern_matching                                                 *)

SPMaxLen == 3
SPMaxPat == 4

spOthers == <<nq, sd, ss, cs, pm, ws, ms, kt, pa, rm, hc, pp, others>>

(* The call of main() and a longer call whose pattern has three stars; a   *)
(* string is the sequence of its characters.                               *)
SPDemo ==
    {[s |-> <<"a", "a", "b">>, pattern |-> <<"c", "*", "a", "*", "b">>],
     [s |-> <<"m", "i", "s", "s", "i", "s", "s", "i", "p", "p", "i">>,
      pattern |-> <<"m", "i", "s", "*", "i", "s", "*", "p", "*", ".">>]}

SPInputs ==
    SPDemo \cup
    {[s |-> s, pattern |-> p] :
        s \in UNION {[1..k -> {"a", "b"}] : k \in 0..SPMaxLen},
        p \in UNION {[1..k -> {"a", "b", ".", "*"}] : k \in 0..SPMaxPat}}

(* ret is the value returned by the backtrack call that returned last.     *)
SPInit ==
    /\ sp \in {[pc |-> "start", s |-> in.s, pattern |-> in.pattern,
                stack |-> <<>>, ret |-> FALSE, result |-> FALSE] :
               in \in SPInputs}
    /\ nq = Idle /\ sd = Idle /\ ss = Idle /\ cs = Idle /\ pm = Idle /\ ws = Idle
    /\ ms = Idle /\ kt = Idle /\ pa = Idle /\ rm = Idle /\ hc = Idle /\ pp = Idle
    /\ OthersIdle

(* first_match without the "." alternative.                                *)
sp_first_match_literal(s, pattern, i, j) ==
    i < Len(s) /\ pattern[j + 1] = s[i + 1]

(* first_match = i < len(s) and (pattern[j] == s[i] or pattern[j] == ".")  *)
sp_first_match(s, pattern, i, j) ==
    i < Len(s) /\ (pattern[j + 1] = s[i + 1] \/ pattern[j + 1] = ".")

sp_star_follows(pattern, j) ==
    (j + 1) < Len(pattern) /\ pattern[j + 2] = "*"

SP_Call ==
    /\ sp.pc = "start"
    /\ sp' = [sp EXCEPT !.pc = "running",
                        !.stack = <<[i |-> 0, j |-> 0, pc |-> "entry"]>>]
    /\ UNCHANGED spOthers

(* Entry of backtrack: at the end of the pattern return i == len(s); under *)
(* a star call backtrack(i, j + 2) first; otherwise return False without   *)
(* first_match and call backtrack(i + 1, j + 1) with it.                   *)
SP_Entry ==
    /\ sp.pc = "running" /\ sp.stack # <<>> /\ Top(sp.stack).pc = "entry"
    /\ LET f == Top(sp.stack) IN
       sp' = IF f.j = Len(sp.pattern)
             THEN [sp EXCEPT !.ret = (f.i = Len(sp.s)), !.stack = Pop(@)]
             ELSE IF sp_star_follows(sp.pattern, f.j)
             THEN [sp EXCEPT !.stack =
                      Append(SetTop(@, [f EXCEPT !.pc = "skipped"]),
                             [i |-> f.i, j |-> f.j + 2, pc |-> "entry"])]
             ELSE IF sp_first_match(sp.s, sp.pattern, f.i, f.j)
             THEN [sp EXCEPT !.stack =
                      Append(SetTop(@, [f EXCEPT !.pc = "tail"]),
                             [i |-> f.i + 1, j |-> f.j + 1, pc |-> "entry"])]
             ELSE [sp EXCEPT !.ret = FALSE, !.stack = Pop(@)]
    /\ UNCHANGED spOthers

(* After backtrack(i, j + 2): True is returned at once; otherwise          *)
(* first_match and backtrack(i + 1, j).                                    *)
SP_Skipped ==
    /\ sp.pc = "running" /\ sp.stack # <<>> /\ Top(sp.stack).pc = "skipped"
    /\ LET f == Top(sp.stack) IN
       sp' = IF sp.ret
             THEN [sp EXCEPT !.stack = Pop(@)]
             ELSE IF sp_first_match(sp.s, sp.pattern, f.i, f.j)
             THEN [sp EXCEPT !.stack =
                      Append(SetTop(@, [f EXCEPT !.pc = "tail"]),
                             [i |-> f.i + 1, j |-> f.j, pc |-> "entry"])]
             ELSE [sp EXCEPT !.ret = FALSE, !.stack = Pop(@)]
    /\ UNCHANGED spOthers

(* The value of the last call is the value of this one.                    *)
SP_Tail ==
    /\ sp.pc = "running" /\ sp.stack # <<>> /\ Top(sp.stack).pc = "tail"
    /\ sp' = [sp EXCEPT !.stack = Pop(@)]
    /\ UNCHANGED spOthers

SP_Return ==
    /\ sp.pc = "running" /\ sp.stack = <<>>
    /\ sp' = [sp EXCEPT !.pc = "done", !.result = sp.ret]
    /\ UNCHANGED spOthers

SPNext == SP_Call \/ SP_Entry \/ SP_Skipped \/ SP_Tail \/ SP_Return

SpecSP == SPInit /\ [][SPNext]_vars

(* Reference notions for the claims about string_pattern_matching.         *)
SPWellFormed(p) ==
    \A j \in 1..Len(p) : p[j] = "*" => (j > 1 /\ p[j - 1] # "*")

SPCharMatches(x, ch) == x = "." \/ x = ch

(* The whole of s matches the whole of the well-formed pattern p: a        *)
(* starred element takes some number m >= 0 of leading characters, any     *)
(* other element exactly one.                                              *)
RECURSIVE SPMatches(_, _)
SPMatches(s, p) ==
    IF p = <<>> THEN s = <<>>
    ELSE IF Len(p) >= 2 /\ p[2] = "*"
    THEN \E m \in 0..Len(s) :
            /\ \A k \in 1..m : SPCharMatches(p[1], s[k])
            /\ SPMatches(SubSeq(s, m + 1, Len(s)), SubSeq(p, 3, Len(p)))
    ELSE /\ s # <<>>
         /\ SPCharMatches(p[1], s[1])
         /\ SPMatches(Tail(s), Tail(p))

(* C15: for a well-formed pattern, string_pattern_matching(s, pattern)     *)
(* returns True exactly when the whole of s matches the whole pattern;     *)
(* ("aab", "c*a*b") gives True and ("mississippi", "mis*is*p*.") False.    *)
C15_MatchesIffFullMatch ==
    (sp.pc = "done" /\ SPWellFormed(sp.pattern)) =>
        /\ sp.result = SPMatches(sp.s, sp.pattern)
        /\ (sp.s = <<"a", "a", "b">> /\ sp.pattern = <<"c", "*", "a", "*", "b">>
               => sp.result = TRUE)
        /\ (Len(sp.s) = 11 => sp.result = FALSE)

C15_Witness ==
    /\ sp.pc = "done" /\ sp.result = TRUE
    /\ sp.s = <<"a", "a", "b">> /\ sp.pattern = <<"c", "*", "a", "*", "b">>

----------------------------------------------------------------------------
(* palindrome_partitioning                                                 *)

PPMaxLen == 5

ppOthers == <<nq, sd, ss, cs, pm, ws, ms, kt, pa, sp, rm, hc, others>>

(* A string is the sequence of its characters.                             *)
PPInit ==
    /\ pp \in {[pc |-> "start", s |-> s, path |-> <<>>, result |-> <<>>,
                stack |-> <<>>] :
               s \in UNION {[1..k -> {"a", "b"}] : k \in 0..PPMaxLen}}
    /\ nq = Idle /\ sd = Idle /\ ss = Idle /\ cs = Idle /\ pm = Idle /\ ws = Idle
    /\ ms = Idle /\ kt = Idle /\ pa = Idle /\ sp = Idle /\ rm = Idle /\ hc = Idle
    /\ OthersIdle

(* is_palindrome comparing the first and the last character only.          *)
pp_is_palindrome_ends_only(sub) == sub[1] = sub[Len(sub)]

(* sub == sub[::-1]                                                        *)
pp_is_palindrome(sub) == sub = [k \in 1..Len(sub) |-> sub[Len(sub) + 1 - k]]

(* result = [] and the call backtrack(0, []).                              *)
PP_Call ==
    /\ pp.pc = "start"
    /\ pp' = [pp EXCEPT !.pc = "running", !.result = <<>>, !.path = <<>>,
                        !.stack = <<[start |-> 0, end |-> 0, pc |-> "entry"]>>]
    /\ UNCHANGED ppOthers

(* Entry of backtrack: record path[:] and return on start == len(s),       *)
(* otherwise start the loop at end = start + 1.                            *)
PP_Entry ==
    /\ pp.pc = "running" /\ pp.stack # <<>> /\ Top(pp.stack).pc = "entry"
    /\ LET f == Top(pp.stack) IN
       pp' = IF f.start = Len(pp.s)
             THEN [pp EXCEPT !.result = Append(@, pp.path), !.stack = Pop(@)]
             ELSE [pp EXCEPT !.stack =
                      SetTop(@, [f EXCEPT !.end = f.start + 1, !.pc = "loop"])]
    /\ UNCHANGED ppOthers

(* One iteration of for end in range(start + 1, len(s) + 1): a palindromic *)
(* s[start:end] joins the path and backtrack(end, path) is called.         *)
PP_Loop ==
    /\ pp.pc = "running" /\ pp.stack # <<>> /\ Top(pp.stack).pc = "loop"
    /\ LET f == Top(pp.stack)
           substring == SubSeq(pp.s, f.start + 1, f.end)
       IN
       pp' = IF f.end > Len(pp.s)
             THEN [pp EXCEPT !.stack = Pop(@)]
             ELSE IF pp_is_palindrome(substring)
             THEN [pp EXCEPT !.path = Append(@, substring),
                             !.stack = Append(SetTop(@, [f EXCEPT !.pc = "undo"]),
                                              [start |-> f.end, end |-> 0,
                                               pc |-> "entry"])]
             ELSE [pp EXCEPT !.stack = SetTop(@, [f EXCEPT !.end = @ + 1])]
    /\ UNCHANGED ppOthers

(* path.pop() after the recursive call, then the next end.                 *)
PP_Undo ==
    /\ pp.pc = "running" /\ pp.stack # <<>> /\ Top(pp.stack).pc = "undo"
    /\ pp' = [pp EXCEPT !.path = Pop(@),
                        !.stack = SetTop(@, [Top(@) EXCEPT !.end = @ + 1,
                                                           !.pc = "loop"])]
    /\ UNCHANGED ppOthers

PP_Return ==
    /\ pp.pc = "running" /\ pp.stack = <<>>
    /\ pp' = [pp EXCEPT !.pc = "done"]
    /\ UNCHANGED ppOthers

PPNext == PP_Call \/ PP_Entry \/ PP_Loop \/ PP_Undo \/ PP_Return

SpecPP == PPInit /\ [][PPNext]_vars

(* Reference notions for the claims about palindrome_partitioning.         *)
PPReadsSameReversed(x) == \A k \in 1..Len(x) : x[k] = x[Len(x) + 1 - k]

(* The pieces of s cut after the positions in cuts.                        *)
PPPieces(s, cuts) ==
    LET b == IncSeq(cuts \cup {0, Len(s)})
    IN  [k \in 1..(Len(b) - 1) |-> SubSeq(s, b[k] + 1, b[k + 1])]

PPPartitions(s) ==
    {part \in {PPPieces(s, cuts) : cuts \in SUBSET (1..(Len(s) - 1))} :
        \A k \in 1..Len(part) : PPReadsSameReversed(part[k])}

RECURSIVE PPConcat(_)
PPConcat(part) ==
    IF part = <<>> THEN <<>> ELSE part[1] \o PPConcat(Tail(part))

PPLengths(part) == [k \in 1..Len(part) |-> Len(part[k])]

(* C19: palindrome_partitioning(s) returns exactly the ways of cutting s   *)
(* into consecutive non-empty palindromes: every returned list             *)
(* concatenates to s, every piece reads the same reversed, every such      *)
(* partition appears exactly once, ordered by increasing length of the     *)
(* earliest differing piece; "aab" gives [["a","a","b"],["aa","b"]].       *)
C19_PalindromePartitions ==
    (pp.pc = "done") =>
        /\ \A k \in 1..Len(pp.result) :
              /\ PPConcat(pp.result[k]) = pp.s
              /\ \A j \in 1..Len(pp.result[k]) :
                    /\ pp.result[k][j] # <<>>
                    /\ PPReadsSameReversed(pp.result[k][j])
        /\ SeqRange(pp.result) = PPPartitions(pp.s)
        /\ Distinct(pp.result)
        /\ \A k \in 1..(Len(pp.result) - 1) :
              LexLess(PPLengths(pp.result[k]), PPLengths(pp.result[k + 1]))
        /\ (pp.s = <<"a", "a", "b">> =>
               pp.result = << << <<"a">>, <<"a">>, <<"b">> >>,
                              << <<"a", "a">>, <<"b">> >> >>)

C19_Witness ==
    /\ pp.pc = "done" /\ pp.s = <<"a", "b", "b", "a", "b">>
    /\ Len(pp.result) = 4

----------------------------------------------------------------------------
(* hamiltonian_cycle                                                       *)

hcOthers == <<nq, sd, ss, cs, pm, ws, ms, kt, pa, sp, rm, pp, others>>

HCAll(n) == [1..n -> [1..n -> {0, 1}]]

HCDirected(n) ==
    {[u \in 1..n |-> [v \in 1..n |-> IF u = v THEN 0 ELSE e[<<u, v>>]]] :
        e \in [{uv \in (1..n) \X (1..n) : uv[1] # uv[2]} -> {0, 1}]}

HCUndirected(n, weights) ==
    {[u \in 1..n |-> [v \in 1..n |-> IF u = v THEN 0 ELSE e[{u, v}]]] :
        e \in [{{u, v} : u, v \in 1..n} \ {{u} : u \in 1..n} -> weights]}

(* The graphs called with: every 0/1 matrix on 1, 2 and 3 vertices, every  *)
(* 0/1 matrix with a zero diagonal on 4 vertices, every symmetric one on 5 *)
(* vertices, the symmetric matrices on 3 vertices with entries up to 2,    *)
(* and matrices the validation rejects (empty, not square, ragged).        *)
HCInputs ==
    HCAll(1) \cup HCAll(2) \cup HCAll(3) \cup HCDirected(4)
    \cup HCUndirected(5, {0, 1}) \cup HCUndirected(3, {0, 1, 2})
    \cup {<<>>, << <<>> >>, << <<0, 1>> >>, << <<0>>, <<1>> >>,
          << <<0, 1>>, <<1>> >>}

(* path holds vertex numbers 0..n-1, -1 where empty; ret is the value      *)
(* returned by the hamiltonian_util call that returned last.               *)
HCInit ==
    /\ hc \in {[pc |-> "start", graph |-> g, n |-> 0, path |-> <<>>,
                stack |-> <<>>, ret |-> FALSE, result |-> <<>>] :
               g \in HCInputs}
    /\ nq = Idle /\ sd = Idle /\ ss = Idle /\ cs = Idle /\ pm = Idle /\ ws = Idle
    /\ ms = Idle /\ kt = Idle /\ pa = Idle /\ sp = Idle /\ rm = Idle /\ pp = Idle
    /\ OthersIdle

(* The terminal test without the edge back to the start.                   *)
hc_closes_always(graph, path, pos) == TRUE

(* graph[path[pos - 1]][path[0]] == 1                                      *)
hc_closes(graph, path, pos) == graph[path[pos] + 1][path[1] + 1] = 1

hc_is_safe(graph, path, v, pos) ==
    IF graph[path[pos] + 1][v + 1] = 0 THEN FALSE
    ELSE IF v \in SeqRange(path) THEN FALSE
    ELSE TRUE

(* The validation, then path = [0, -1, ..., -1] and hamiltonian_util(1).   *)
HC_Call ==
    /\ hc.pc = "start"
    /\ hc' = IF hc.graph = <<>>
                \/ \E k \in 1..Len(hc.graph) : Len(hc.graph[k]) # Len(hc.graph)
             THEN [hc EXCEPT !.pc = "ValueError"]
             ELSE LET n == Len(hc.graph) IN
                  [hc EXCEPT !.pc = "running", !.n = n,
                             !.path = [k \in 1..n |-> IF k = 1 THEN 0 ELSE -1],
                             !.stack = <<[pos |-> 1, v |-> 0, pc |-> "entry"]>>]
    /\ UNCHANGED hcOthers

(* Entry of hamiltonian_util: at pos == n return whether the edge back to  *)
(* path[0] exists, otherwise start the loop at v = 1.                      *)
HC_Entry ==
    /\ hc.pc = "running" /\ hc.stack # <<>> /\ Top(hc.stack).pc = "entry"
    /\ LET f == Top(hc.stack) IN
       hc' = IF f.pos = hc.n
             THEN [hc EXCEPT !.ret = hc_closes(hc.graph, hc.path, f.pos),
                             !.stack = Pop(@)]
             ELSE [hc EXCEPT !.stack = SetTop(@, [f EXCEPT !.v = 1, !.pc = "loop"])]
    /\ UNCHANGED hcOthers

(* One iteration of for v in range(1, n): a safe v is placed at pos and    *)
(* hamiltonian_util(pos + 1) is called; False after the last v.            *)
HC_Loop ==
    /\ hc.pc = "running" /\ hc.stack # <<>> /\ Top(hc.stack).pc = "loop"
    /\ LET f == Top(hc.stack) IN
       hc' = IF f.v >= hc.n
             THEN [hc EXCEPT !.ret = FALSE, !.stack = Pop(@)]
             ELSE IF hc_is_safe(hc.graph, hc.path, f.v, f.pos)
             THEN [hc EXCEPT !.path[f.pos + 1] = f.v,
                             !.stack = Append(SetTop(@, [f EXCEPT !.pc = "after"]),
                                              [pos |-> f.pos + 1, v |-> 0,
                                               pc |-> "entry"])]
             ELSE [hc EXCEPT !.stack = SetTop(@, [f EXCEPT !.v = @ + 1])]
    /\ UNCHANGED hcOthers

(* After the recursive call: return True if it did, otherwise clear        *)
(* path[pos] and go on with the next v.                                    *)
HC_After ==
    /\ hc.pc = "running" /\ hc.stack # <<>> /\ Top(hc.stack).pc = "after"
    /\ LET f == Top(hc.stack) IN
       hc' = IF hc.ret
             THEN [hc EXCEPT !.stack = Pop(@)]
             ELSE [hc EXCEPT !.path[f.pos + 1] = -1,
                             !.stack = SetTop(@, [f EXCEPT !.v = @ + 1,
                                                           !.pc = "loop"])]
    /\ UNCHANGED hcOthers

(* [] if hamiltonian_util(1) returned False, otherwise path + [path[0]].   *)
HC_Return ==
    /\ hc.pc = "running" /\ hc.stack = <<>>
    /\ hc' = [hc EXCEPT !.pc = "done",
                        !.result = IF ~hc.ret THEN <<>>
                                   ELSE Append(hc.path, hc.path[1])]
    /\ UNCHANGED hcOthers

HCNext == HC_Call \/ HC_Entry \/ HC_Loop \/ HC_After \/ HC_Return

SpecHC == HCInit /\ [][HCNext]_vars

(* Reference notions for the claims about hamiltonian_cycle.               *)
HCZeroOne(g) == \A u, v \in 1..Len(g) : g[u][v] \in {0, 1}

(* Some ordering of all the vertices, each joined to the next and the last *)
(* to the first by an edge (vertices numbered from 1 here).                *)
HCHasCycle(g) ==
    \E q \in Permutations(1..Len(g)) :
        /\ q[1] = 1
        /\ \A k \in 1..(Len(g) - 1) : g[q[k]][q[k + 1]] = 1
        /\ g[q[Len(g)]][q[1]] = 1

HCIsCycle(r, g) ==
    /\ Len(r) = Len(g) + 1
    /\ r[1] = 0 /\ r[Len(r)] = 0
    /\ {r[k] : k \in 1..Len(g)} = 0..(Len(g) - 1)
    /\ \A k \in 1..Len(g) : g[r[k] + 1][r[k + 1] + 1] = 1

(* C17: for a 0/1 adjacency matrix on 3..5 vertices, hamiltonian_cycle     *)
(* returns a non-empty list exactly when the graph has a Hamiltonian       *)
(* cycle; a non-empty result has n+1 entries, starts and ends with 0,      *)
(* holds every vertex once among its first n entries and follows edges;    *)
(* otherwise the result is [].                                             *)
C17_HamiltonianCycle ==
    (hc.pc = "done" /\ hc.n \in 3..5 /\ HCZeroOne(hc.graph)) =>
        /\ (hc.result # <<>>) <=> HCHasCycle(hc.graph)
        /\ (hc.result # <<>>) => HCIsCycle(hc.result, hc.graph)

C17_Witness ==
    /\ hc.pc = "done" /\ hc.n = 5 /\ hc.result # <<>>
    /\ HCIsCycle(hc.result, hc.graph)
    /\ hc.result # <<0, 1, 2, 3, 4, 0>>

----------------------------------------------------------------------------
(* The solvers that validate their argument, side by side: a behaviour is  *)
(* one call of n_queens, knights_tour, magic_square,                       *)
(* all_possible_valid_parentheses, rat_in_maze or hamiltonian_cycle.       *)
ValidatingInit == NQInit \/ KTInit \/ MSInit \/ PAInit \/ RMInit \/ HCInit

ValidatingNext == NQNext \/ KTNext \/ MSNext \/ PANext \/ RMNext \/ HCNext

SpecValidating == ValidatingInit /\ [][ValidatingNext]_vars

(* Reference notions for the claims about invalid input.                   *)
NotSquareGrid(g) == g = <<>> \/ \E k \in 1..Len(g) : Len(g[k]) # Len(g)

(* The call x is at its start and the step taken raises the invalid-input  *)
(* error with no search call on the stack and no result.                   *)
RejectedAtOnce(x, xNext) ==
    x.pc = "start" =>
        /\ xNext.pc = "ValueError"
        /\ xNext.stack = <<>>
        /\ xNext.result = <<>>

(* C21: invalid input is rejected before any search step: the first step   *)
(* of n_queens, knights_tour and magic_square on n <= 0, of                *)
(* all_possible_valid_parentheses on n < 0, and of rat_in_maze and         *)
(* hamiltonian_cycle on an empty or non-square grid raises the             *)
(* invalid-input error, with no recursive call made and no result.         *)
C21_InvalidRejectedFirst ==
    [][/\ (nq.pc # "idle" /\ nq.n <= 0 => RejectedAtOnce(nq, nq'))
       /\ (kt.pc # "idle" /\ kt.n <= 0 => RejectedAtOnce(kt, kt'))
       /\ (ms.pc # "idle" /\ ms.n <= 0 => RejectedAtOnce(ms, ms'))
       /\ (pa.pc # "idle" /\ pa.n < 0 => RejectedAtOnce(pa, pa'))
       /\ (rm.pc # "idle" /\ NotSquareGrid(rm.maze) => RejectedAtOnce(rm, rm'))
       /\ (hc.pc # "idle" /\ NotSquareGrid(hc.graph) => RejectedAtOnce(hc, hc'))
      ]_vars

C21_Witness ==
    /\ rm.pc = "ValueError" /\ rm.maze = << <<1, 1>>, <<1>> >>
    /\ rm.stack = <<>> /\ rm.result = <<>>

----------------------------------------------------------------------------
(* An enumeration called a second time on the same argument object: the    *)
(* second call starts with fresh locals and with the argument as the first *)
(* call left it; the record gains the field first, the list the first call *)
(* returned.                                                               *)

Again(fresh, done) == fresh @@ [first |-> done.result]

CalledOnce(x) == x.pc = "done" /\ "first" \notin DOMAIN x

NQ_Again ==
    /\ CalledOnce(nq)
    /\ nq' = Again([pc |-> "start", n |-> nq.n, board |-> <<>>,
                    solutions |-> <<>>, stack |-> <<>>, result |-> <<>>], nq)
    /\ UNCHANGED nqOthers

SS_Again ==
    /\ CalledOnce(ss)
    /\ ss' = Again([pc |-> "start", nums |-> ss.nums, target |-> ss.target,
                    path |-> <<>>, result |-> <<>>, stack |-> <<>>], ss)
    /\ UNCHANGED ssOthers

(* nums is the caller's list as the first call left it.                    *)
PM_Again ==
    /\ CalledOnce(pm)
    /\ pm' = Again([pc |-> "start", nums |-> pm.nums, nums0 |-> pm.nums,
                    result |-> <<>>, stack |-> <<>>], pm)
    /\ UNCHANGED pmOthers

RM_Again ==
    /\ CalledOnce(rm)
    /\ rm' = Again([pc |-> "start", maze |-> rm.maze, maze0 |-> rm.maze,
                    n |-> 0, path |-> <<>>, visited |-> <<>>, paths |-> <<>>,
                    stack |-> <<>>, result |-> <<>>], rm)
    /\ UNCHANGED rmOthers

PP_Again ==
    /\ CalledOnce(pp)
    /\ pp' = Again([pc |-> "start", s |-> pp.s, path |-> <<>>,
                    result |-> <<>>, stack |-> <<>>], pp)
    /\ UNCHANGED ppOthers

CS_Again ==
    /\ CalledOnce(cs)
    /\ cs' = Again([pc |-> "start", candidates |-> cs.candidates,
                    target |-> cs.target, path |-> <<>>, result |-> <<>>,
                    stack |-> <<>>], cs)
    /\ UNCHANGED csOthers

PA_Again ==
    /\ CalledOnce(pa)
    /\ pa' = Again([pc |-> "start", n |-> pa.n, result |-> <<>>,
                    stack |-> <<>>], pa)
    /\ UNCHANGED paOthers

TwiceInit == NQInit \/ SSInit \/ PMInit \/ RMInit \/ PPInit \/ CSInit \/ PAInit

TwiceNext ==
    \/ NQNext \/ SSNext \/ PMNext \/ RMNext \/ PPNext \/ CSNext \/ PANext
    \/ NQ_Again \/ SS_Again \/ PM_Again \/ RM_Again \/ PP_Again \/ CS_Again
    \/ PA_Again

SpecTwice == TwiceInit /\ [][TwiceNext]_vars

(* Reference notion for the claims about repeated calls: the second call   *)
(* has returned the list the first call returned.                          *)
SameAgain(x) == (x.pc = "done" /\ "first" \in DOMAIN x) => x.result = x.first

(* C22: an enumeration run twice in succession on the same argument object *)
(* returns two equal lists, the same solutions in the same order; so does  *)
(* a second permutations(nums) on the same list object.                    *)
C22_SecondCallEqual ==
    /\ SameAgain(nq) /\ SameAgain(ss) /\ SameAgain(pm) /\ SameAgain(rm)
    /\ SameAgain(pp) /\ SameAgain(cs) /\ SameAgain(pa)

C22_Witness ==
    /\ pm.pc = "done" /\ "first" \in DOMAIN pm
    /\ Len(pm.nums) = 3 /\ Len(pm.result) = 6 /\ pm.result = pm.first

----------------------------------------------------------------------------
(* sorting                                                                 *)

SOMaxLen == 5

soOthers == <<backtracking, se, sk, cl, dl, qu, cc, th>>

SOFunctions ==
    {"bubble_sort", "selection_sort", "insertion_sort", "merge_sort",
     "quick_sort", "heap_sort"}

(* The lists sorted: every list over -1, 0, 1 and every ordering of        *)
(* 1..k, of length up to SOMaxLen.                                         *)
SOInputs ==
    UNION {[1..k -> (-1)..1] \cup
           {a \in [1..k -> 1..k] : \A x, y \in 1..k : x # y => a[x] # a[y]} :
           k \in 0..SOMaxLen}

(* arr0 records the list as it was at the call; result is "unset" until    *)
(* the function returns.                                                   *)
SOInit ==
    /\ so \in {[pc |-> "start", fn |-> fn, arr |-> a, arr0 |-> a,
                i |-> 0, j |-> 0, min_idx |-> 0, key |-> 0, stack |-> <<>>,
                result |-> "unset"] : fn \in SOFunctions, a \in SOInputs}
    /\ BacktrackingIdle
    /\ se = Idle /\ sk = Idle /\ cl = Idle /\ dl = Idle /\ qu = Idle
    /\ cc = Idle /\ th = Idle

(* arr[a], arr[b] = arr[b], arr[a] with 0-based a, b.                      *)
SOSwap(arr, a, b) ==
    [arr EXCEPT ![a + 1] = arr[b + 1], ![b + 1] = arr[a + 1]]

(* if not arr or len(arr) < 2: return None, the first statement of each    *)
(* function.                                                               *)
SO_Trivial ==
    /\ so.pc = "start" /\ Len(so.arr) < 2
    /\ so' = [so EXCEPT !.pc = "done", !.result = "None"]
    /\ UNCHANGED soOthers

(* bubble_sort *)

(* arr[j] > arr[j + 1]                                                     *)
bs_out_of_order(a, b) == a > b

BS_Call ==
    /\ so.pc = "start" /\ so.fn = "bubble_sort" /\ Len(so.arr) >= 2
    /\ so' = [so EXCEPT !.pc = "running", !.i = 0, !.j = 0]
    /\ UNCHANGED soOthers

(* One iteration of the inner loop, or the step to the next i, or the      *)
(* return after the last i.                                                *)
BS_Step ==
    /\ so.pc = "running" /\ so.fn = "bubble_sort"
    /\ LET n == Len(so.arr) IN
       so' = IF so.i >= n
             THEN [so EXCEPT !.pc = "done", !.result = "None"]
             ELSE IF so.j < n - so.i - 1
             THEN IF bs_out_of_order(so.arr[so.j + 1], so.arr[so.j + 2])
                  THEN [so EXCEPT !.arr = SOSwap(@, so.j, so.j + 1), !.j = @ + 1]
                  ELSE [so EXCEPT !.j = @ + 1]
             ELSE [so EXCEPT !.i = @ + 1, !.j = 0]
    /\ UNCHANGED soOthers

(* selection_sort *)

SEL_Call ==
    /\ so.pc = "start" /\ so.fn = "selection_sort" /\ Len(so.arr) >= 2
    /\ so' = [so EXCEPT !.pc = "running", !.i = 0, !.min_idx = 0, !.j = 1]
    /\ UNCHANGED soOthers

(* One iteration of the inner loop, which only updates min_idx, or the     *)
(* step to the next i (nothing is written to arr), or the return.          *)
SEL_Step ==
    /\ so.pc = "running" /\ so.fn = "selection_sort"
    /\ LET n == Len(so.arr) IN
       so' = IF so.i >= n
             THEN [so EXCEPT !.pc = "done", !.result = "None"]
             ELSE IF so.j < n
             THEN IF so.arr[so.j + 1] < so.arr[so.min_idx + 1]
                  THEN [so EXCEPT !.min_idx = so.j, !.j = @ + 1]
                  ELSE [so EXCEPT !.j = @ + 1]
             ELSE [so EXCEPT !.i = @ + 1, !.min_idx = so.i + 1, !.j = so.i + 2]
    /\ UNCHANGED soOthers

(* insertion_sort *)

INS_Call ==
    /\ so.pc = "start" /\ so.fn = "insertion_sort" /\ Len(so.arr) >= 2
    /\ so' = [so EXCEPT !.pc = "outer", !.i = 1]
    /\ UNCHANGED soOthers

(* key = arr[i]; j = i - 1, or the return after the last i.                *)
INS_Outer ==
    /\ so.pc = "outer" /\ so.fn = "insertion_sort"
    /\ so' = IF so.i >= Len(so.arr)
             THEN [so EXCEPT !.pc = "done", !.result = "None"]
             ELSE [so EXCEPT !.pc = "inner", !.key = so.arr[so.i + 1],
                             !.j = so.i - 1]
    /\ UNCHANGED soOthers

(* One iteration of while j >= 0 and key < arr[j], or arr[j + 1] = key.    *)
INS_Inner ==
    /\ so.pc = "inner" /\ so.fn = "insertion_sort"
    /\ so' = IF so.j >= 0 /\ so.key < so.arr[so.j + 1]
             THEN [so EXCEPT !.arr[so.j + 2] = so.arr[so.j + 1], !.j = @ - 1]
             ELSE [so EXCEPT !.arr[so.j + 2] = so.key, !.i = @ + 1,
                             !.pc = "outer"]
    /\ UNCHANGED soOthers

(* merge_sort: each invocation has its own list arr; left and right are    *)
(* the copies arr[:mid] and arr[mid:], which the recursive calls sort in   *)
(* place.                                                                  *)

MG_Call ==
    /\ so.pc = "start" /\ so.fn = "merge_sort" /\ Len(so.arr) >= 2
    /\ so' = [so EXCEPT !.pc = "running",
                        !.stack = <<[arr |-> so.arr, left |-> <<>>,
                                     right |-> <<>>, pc |-> "entry"]>>]
    /\ UNCHANGED soOthers

(* The three while loops that write left and right back into arr.          *)
RECURSIVE mg_merge(_, _)
mg_merge(left, right) ==
    IF left = <<>> THEN right
    ELSE IF right = <<>> THEN left
    ELSE IF left[1] < right[1]
    THEN <<left[1]>> \o mg_merge(Tail(left), right)
    ELSE <<right[1]>> \o mg_merge(left, Tail(right))

(* The innermost invocation returns: the list it sorted is the caller's    *)
(* left or right, or the list of the top-level call.                       *)
mg_return(s, sorted) ==
    IF Len(s.stack) = 1
    THEN [s EXCEPT !.arr = sorted, !.stack = <<>>, !.pc = "done",
                   !.result = "None"]
    ELSE LET caller == s.stack[Len(s.stack) - 1] IN
         [s EXCEPT !.stack = SetTop(Pop(@),
                      IF caller.pc = "left"
                      THEN [caller EXCEPT !.left = sorted]
                      ELSE [caller EXCEPT !.right = sorted])]

(* Entry of merge_sort: return on a list shorter than 2, otherwise split   *)
(* and call merge_sort(left).                                              *)
MG_Entry ==
    /\ so.pc = "running" /\ so.fn = "merge_sort"
    /\ so.stack # <<>> /\ Top(so.stack).pc = "entry"
    /\ LET f == Top(so.stack)
           mid == Len(f.arr) \div 2
           left == SubSeq(f.arr, 1, mid)
           right == SubSeq(f.arr, mid + 1, Len(f.arr))
       IN
       so' = IF Len(f.arr) < 2
             THEN mg_return(so, f.arr)
             ELSE [so EXCEPT !.stack =
                      Append(SetTop(@, [f EXCEPT !.left = left, !.right = right,
                                                 !.pc = "left"]),
                             [arr |-> left, left |-> <<>>, right |-> <<>>,
                              pc |-> "entry"])]
    /\ UNCHANGED soOthers

(* After merge_sort(left): the call merge_sort(right).                     *)
MG_AfterLeft ==
    /\ so.pc = "running" /\ so.fn = "merge_sort"
    /\ so.stack # <<>> /\ Top(so.stack).pc = "left"
    /\ LET f == Top(so.stack) IN
       so' = [so EXCEPT !.stack =
                 Append(SetTop(@, [f EXCEPT !.pc = "right"]),
                        [arr |-> f.right, left |-> <<>>, right |-> <<>>,
                         pc |-> "entry"])]
    /\ UNCHANGED soOthers

(* After merge_sort(right): the merge into arr and the return.             *)
MG_Merge ==
    /\ so.pc = "running" /\ so.fn = "merge_sort"
    /\ so.stack # <<>> /\ Top(so.stack).pc = "right"
    /\ so' = mg_return(so, mg_merge(Top(so.stack).left, Top(so.stack).right))
    /\ UNCHANGED soOthers

(* quick_sort *)

(* The loop of _partition from j on: arr and i after it.                   *)
RECURSIVE qs_scan(_, _, _, _, _)
qs_scan(arr, pivot, i, j, high) ==
    IF j >= high THEN [arr |-> arr, i |-> i]
    ELSE IF arr[j + 1] < pivot
    THEN qs_scan(SOSwap(arr, i + 1, j), pivot, i + 1, j + 1, high)
    ELSE qs_scan(arr, pivot, i, j + 1, high)

(* _partition: the array after it and the index it returns.                *)
qs_partition(arr, low, high) ==
    LET after == qs_scan(arr, arr[high + 1], low - 1, low, high)
    IN  [arr |-> SOSwap(after.arr, after.i + 1, high), pi |-> after.i + 1]

QS_Call ==
    /\ so.pc = "start" /\ so.fn = "quick_sort" /\ Len(so.arr) >= 2
    /\ so' = [so EXCEPT !.pc = "running",
                        !.stack = <<[low |-> 0, high |-> Len(so.arr) - 1,
                                     pi |-> 0, pc |-> "entry"]>>]
    /\ UNCHANGED soOthers

(* Entry of _quick_sort_helper: partition and the call on the lower part   *)
(* when low < high, otherwise the return.                                  *)
QS_Entry ==
    /\ so.pc = "running" /\ so.fn = "quick_sort"
    /\ so.stack # <<>> /\ Top(so.stack).pc = "entry"
    /\ LET f == Top(so.stack)
           p == qs_partition(so.arr, f.low, f.high)
       IN
       so' = IF f.low < f.high
             THEN [so EXCEPT !.arr = p.arr,
                             !.stack =
                                Append(SetTop(@, [f EXCEPT !.pi = p.pi,
                                                           !.pc = "lower"]),
                                       [low |-> f.low, high |-> p.pi - 1,
                                        pi |-> 0, pc |-> "entry"])]
             ELSE [so EXCEPT !.stack = Pop(@)]
    /\ UNCHANGED soOthers

(* After the call on the lower part: the call on the upper part.           *)
QS_AfterLower ==
    /\ so.pc = "running" /\ so.fn = "quick_sort"
    /\ so.stack # <<>> /\ Top(so.stack).pc = "lower"
    /\ LET f == Top(so.stack) IN
       so' = [so EXCEPT !.stack =
                 Append(SetTop(@, [f EXCEPT !.pc = "upper"]),
                        [low |-> f.pi + 1, high |-> f.high, pi |-> 0,
                         pc |-> "entry"])]
    /\ UNCHANGED soOthers

QS_AfterUpper ==
    /\ so.pc = "running" /\ so.fn = "quick_sort"
    /\ so.stack # <<>> /\ Top(so.stack).pc = "upper"
    /\ so' = [so EXCEPT !.stack = Pop(@)]
    /\ UNCHANGED soOthers

QS_Return ==
    /\ so.pc = "running" /\ so.fn = "quick_sort" /\ so.stack = <<>>
    /\ so' = [so EXCEPT !.pc = "done", !.result = "None"]
    /\ UNCHANGED soOthers

(* heap_sort *)

(* _heapify that does not go on below the exchanged child.                 *)
hs_heapify_one_level(arr, n, i) ==
    LET left == 2 * i + 1
        right == 2 * i + 2
        l1 == IF left < n /\ arr[left + 1] > arr[i + 1] THEN left ELSE i
        largest == IF right < n /\ arr[right + 1] > arr[l1 + 1] THEN right ELSE l1
    IN  IF largest # i THEN SOSwap(arr, i, largest) ELSE arr

(* _heapify: the array after it.                                           *)
RECURSIVE hs_heapify(_, _, _)
hs_heapify(arr, n, i) ==
    LET left == 2 * i + 1
        right == 2 * i + 2
        l1 == IF left < n /\ arr[left + 1] > arr[i + 1] THEN left ELSE i
        largest == IF right < n /\ arr[right + 1] > arr[l1 + 1] THEN right ELSE l1
    IN  IF largest # i
        THEN hs_heapify(SOSwap(arr, i, largest), n, largest)
        ELSE arr

HS_Call ==
    /\ so.pc = "start" /\ so.fn = "heap_sort" /\ Len(so.arr) >= 2
    /\ so' = [so EXCEPT !.pc = "build", !.i = Len(so.arr) \div 2 - 1]
    /\ UNCHANGED soOthers

(* One iteration of for i in range(n // 2 - 1, -1, -1).                    *)
HS_Build ==
    /\ so.pc = "build" /\ so.fn = "heap_sort"
    /\ so' = IF so.i < 0
             THEN [so EXCEPT !.pc = "extract", !.i = Len(so.arr) - 1]
             ELSE [so EXCEPT !.arr = hs_heapify(@, Len(so.arr), so.i),
                             !.i = @ - 1]
    /\ UNCHANGED soOthers

(* One iteration of for i in range(n - 1, 0, -1), or the return.           *)
HS_Extract ==
    /\ so.pc = "extract" /\ so.fn = "heap_sort"
    /\ so' = IF so.i < 1
             THEN [so EXCEPT !.pc = "done", !.result = "None"]
             ELSE [so EXCEPT !.arr = hs_heapify(SOSwap(@, 0, so.i), so.i, 0),
                             !.i = @ - 1]
    /\ UNCHANGED soOthers

SONext ==
    \/ SO_Trivial
    \/ BS_Call \/ BS_Step
    \/ SEL_Call \/ SEL_Step
    \/ INS_Call \/ INS_Outer \/ INS_Inner
    \/ MG_Call \/ MG_Entry \/ MG_AfterLeft \/ MG_Merge
    \/ QS_Call \/ QS_Entry \/ QS_AfterLower \/ QS_AfterUpper \/ QS_Return
    \/ HS_Call \/ HS_Build \/ HS_Extract

SpecSO == SOInit /\ [][SONext]_vars

(* Reference notions for the claims about sorting.                         *)
Ascending(a) == \A k \in 1..(Len(a) - 1) : a[k] <= a[k + 1]

Occurrences(a, v) == Cardinality({k \in 1..Len(a) : a[k] = v})

SameContents(a, b) ==
    /\ Len(a) = Len(b)
    /\ \A v \in SeqRange(a) \cup SeqRange(b) : Occurrences(a, v) = Occurrences(b, v)

(* C23: after selection_sort(arr) returns, arr is in ascending order and   *)
(* is a permutation of its original contents.                              *)
C23_SelectionSortSorts ==
    (so.pc = "done" /\ so.fn = "selection_sort") =>
        Ascending(so.arr) /\ SameContents(so.arr, so.arr0)

(* C24: after bubble_sort, insertion_sort, merge_sort, quick_sort or       *)
(* heap_sort returns, arr is in ascending order and is a permutation of    *)
(* its original contents, duplicates kept with their multiplicity, and the *)
(* function has returned None.                                             *)
C24_OtherSortsSort ==
    (so.pc = "done" /\ so.fn # "selection_sort") =>
        /\ Ascending(so.arr)
        /\ SameContents(so.arr, so.arr0)
        /\ so.result = "None"

C24_Witness ==
    /\ so.pc = "done" /\ so.fn = "heap_sort"
    /\ so.arr0 = <<1, 0, 1, -1, 0>> /\ so.arr = <<-1, 0, 0, 1, 1>>

----------------------------------------------------------------------------
(* interpolation_search                                                    *)

ISMaxLen == 4
ISMaxVal == 5

seOthers == <<backtracking, so, sk, cl, dl, qu, cc, th>>

(* The sorted lists searched (duplicates allowed) and the targets, one     *)
(* below and one above every value.                                        *)
ISInputs ==
    {[arr |-> a, target |-> t] :
        a \in {s \in UNION {[1..k -> 0..ISMaxVal] : k \in 0..ISMaxLen} :
                  \A k \in 1..(Len(s) - 1) : s[k] <= s[k + 1]},
        t \in (-1)..(ISMaxVal + 1)}

ISInit ==
    /\ se \in {[pc |-> "start", arr |-> in.arr, target |-> in.target,
                low |-> 0, high |-> 0, result |-> -1] : in \in ISInputs}
    /\ BacktrackingIdle
    /\ so = Idle /\ sk = Idle /\ cl = Idle /\ dl = Idle /\ qu = Idle
    /\ cc = Idle /\ th = Idle

(* low = 0; high = len(arr) - 1                                            *)
IS_Call ==
    /\ se.pc = "start"
    /\ se' = [se EXCEPT !.pc = "running", !.low = 0, !.high = Len(se.arr) - 1]
    /\ UNCHANGED seOthers

(* The test of the while loop and one iteration of its body: the division  *)
(* by arr[high] - arr[low] raises ZeroDivisionError when the two are       *)
(* equal.                                                                  *)
IS_Step ==
    /\ se.pc = "running"
    /\ LET low == se.low
           high == se.high
           in_range == /\ low <= high
                       /\ se.arr[low + 1] <= se.target
                       /\ se.target <= se.arr[high + 1]
           span == se.arr[high + 1] - se.arr[low + 1]
           pos == low + (((se.target - se.arr[low + 1]) * (high - low)) \div span)
       IN
       se' = IF ~in_range
             THEN [se EXCEPT !.pc = "done", !.result = -1]
             ELSE IF low = high
             THEN [se EXCEPT !.pc = "done",
                             !.result = IF se.arr[low + 1] = se.target
                                        THEN low ELSE -1]
             ELSE IF span = 0
             THEN [se EXCEPT !.pc = "ZeroDivisionError"]
             ELSE IF se.arr[pos + 1] = se.target
             THEN [se EXCEPT !.pc = "done", !.result = pos]
             ELSE IF se.arr[pos + 1] < se.target
             THEN [se EXCEPT !.low = pos + 1]
             ELSE [se EXCEPT !.high = pos - 1]
    /\ UNCHANGED seOthers

ISNext == IS_Call \/ IS_Step

SpecIS == ISInit /\ [][ISNext]_vars

(* C25: on an ascending list, duplicates allowed, interpolation_search     *)
(* ends without an error, with an index of target when target occurs in    *)
(* arr and with -1 otherwise.                                              *)
C25_InterpolationSearch ==
    Finished(se) =>
        /\ se.pc = "done"
        /\ IF se.target \in SeqRange(se.arr)
           THEN se.result \in 0..(Len(se.arr) - 1)
                /\ se.arr[se.result + 1] = se.target
           ELSE se.result = -1

----------------------------------------------------------------------------
(* Stack                                                                   *)

SKMaxLen == 3

skOthers == <<backtracking, so, se, cl, dl, qu, cc, th>>

(* lst is the argument of from_list; items is the list self._items;        *)
(* popped holds the values returned by the pops so far, peeked the value   *)
(* returned by the last peek (<<>> when there was none).                   *)
SKInit ==
    /\ sk \in {[pc |-> "start", lst |-> l, items |-> <<>>, popped |-> <<>>,
                peeked |-> <<>>] :
               l \in UNION {[1..k -> 1..SKMaxLen] : k \in 0..SKMaxLen}}
    /\ BacktrackingIdle
    /\ so = Idle /\ se = Idle /\ cl = Idle /\ dl = Idle /\ qu = Idle
    /\ cc = Idle /\ th = Idle

(* lst[::-1]                                                               *)
Reversed(lst) == [k \in 1..Len(lst) |-> lst[Len(lst) + 1 - k]]

(* stack = cls(); stack._items = list(lst)[::-1]                          *)
SK_FromList ==
    /\ sk.pc = "start"
    /\ sk' = [sk EXCEPT !.pc = "ready", !.items = Reversed(sk.lst)]
    /\ UNCHANGED skOthers

(* peek: IndexError on the empty stack, otherwise _items[-1].             *)
SK_Peek ==
    /\ sk.pc = "ready"
    /\ sk' = IF Len(sk.items) = 0
             THEN [sk EXCEPT !.pc = "IndexError"]
             ELSE [sk EXCEPT !.peeked = <<sk.items[Len(sk.items)]>>]
    /\ UNCHANGED skOthers

(* pop: IndexError on the empty stack, otherwise _items.pop().            *)
SK_Pop ==
    /\ sk.pc = "ready"
    /\ sk' = IF Len(sk.items) = 0
             THEN [sk EXCEPT !.pc = "IndexError"]
             ELSE [sk EXCEPT !.popped = Append(@, sk.items[Len(sk.items)]),
                             !.items = SubSeq(@, 1, Len(@) - 1),
                             !.peeked = <<>>]
    /\ UNCHANGED skOthers

SKNext == SK_FromList \/ SK_Peek \/ SK_Pop

SpecSK == SKInit /\ [][SKNext]_vars

(* C26: the top of Stack.from_list(lst) is the last element of lst: a peek *)
(* before any pop returns lst[-1], and successive pops return the elements *)
(* of lst from last to first.                                              *)
C26_FromListTopIsLast ==
    (sk.pc = "ready" /\ sk.lst # <<>>) =>
        /\ (sk.peeked # <<>> /\ sk.popped = <<>> =>
               sk.peeked[1] = sk.lst[Len(sk.lst)])
        /\ \A k \in 1..Len(sk.popped) :
              sk.popped[k] = sk.lst[Len(sk.lst) + 1 - k]

----------------------------------------------------------------------------
(* CircularLinkedList and DoublyLinkedList                                 *)

LLMaxLen == 3

(* The values stored: 0 among them.                                        *)
LLValues == (-1)..2

LLInputs == UNION {[1..k -> LLValues] : k \in 0..LLMaxLen}

(* if not data, for an integer.                                            *)
Falsy(data) == data = 0

None == 0

clOthers == <<backtracking, so, se, sk, dl, qu, cc, th>>

(* nodes holds the Node objects created so far, a node being named by its  *)
(* position in it; head is a node or None; data_list is the argument of    *)
(* from_list and k the number of its elements handed to add so far.        *)
CLInit ==
    /\ cl \in {[pc |-> "start", data_list |-> l, k |-> 0, nodes |-> <<>>,
                head |-> None, size |-> 0] : l \in LLInputs}
    /\ BacktrackingIdle
    /\ so = Idle /\ se = Idle /\ sk = Idle /\ dl = Idle /\ qu = Idle
    /\ cc = Idle /\ th = Idle

(* The node found by tail = self.head; while tail.next != self.head:       *)
(* tail = tail.next.                                                       *)
RECURSIVE cl_tail(_, _, _)
cl_tail(nodes, head, tail) ==
    IF nodes[tail].next = head THEN tail
    ELSE cl_tail(nodes, head, nodes[tail].next)

(* add: the list after it.                                                 *)
cl_add(l, data) ==
    LET new_node == Len(l.nodes) + 1 IN
    IF Falsy(data) THEN l
    ELSE IF l.head = None
    THEN [l EXCEPT !.nodes = Append(@, [data |-> data, next |-> new_node]),
                   !.head = new_node,
                   !.size = @ + 1]
    ELSE LET tail == cl_tail(l.nodes, l.head, l.head) IN
         [l EXCEPT !.nodes = Append([@ EXCEPT ![tail].next = new_node],
                                    [data |-> data, next |-> l.head]),
                   !.size = @ + 1]

(* traverse from current on: the data yielded up to the return to head.    *)
RECURSIVE cl_traverse_from(_, _, _)
cl_traverse_from(nodes, head, current) ==
    <<nodes[current].data>> \o
    (IF nodes[current].next = head THEN <<>>
     ELSE cl_traverse_from(nodes, head, nodes[current].next))

(* to_list                                                                 *)
cl_to_list(l) ==
    IF l.head = None THEN <<>> ELSE cl_traverse_from(l.nodes, l.head, l.head)

(* cll = cls()                                                             *)
CL_FromList ==
    /\ cl.pc = "start"
    /\ cl' = [cl EXCEPT !.pc = "building", !.k = 0, !.nodes = <<>>,
                        !.head = None, !.size = 0]
    /\ UNCHANGED clOthers

(* One iteration of for data in data_list: cll.add(data), or return cll.   *)
CL_FromListAdd ==
    /\ cl.pc = "building"
    /\ cl' = IF cl.k >= Len(cl.data_list)
             THEN [cl EXCEPT !.pc = "built"]
             ELSE [cl_add(cl, cl.data_list[cl.k + 1]) EXCEPT !.k = @ + 1]
    /\ UNCHANGED clOthers

CLNext == CL_FromList \/ CL_FromListAdd

dlOthers == <<backtracking, so, se, sk, cl, qu, cc, th>>

(* nodes holds the Node objects created so far; head and tail are nodes or *)
(* None; lst is the argument of from_list and k the number of its elements *)
(* handed to append so far.                                                *)
DLInit ==
    /\ dl \in {[pc |-> "start", lst |-> l, k |-> 0, nodes |-> <<>>,
                head |-> None, tail |-> None] : l \in LLInputs}
    /\ BacktrackingIdle
    /\ so = Idle /\ se = Idle /\ sk = Idle /\ cl = Idle /\ qu = Idle
    /\ cc = Idle /\ th = Idle

(* append: the list after it.                                              *)
dl_append(l, data) ==
    LET new_node == Len(l.nodes) + 1 IN
    IF Falsy(data) THEN l
    ELSE IF l.head = None
    THEN [l EXCEPT !.nodes = Append(@, [data |-> data, prev |-> None,
                                        next |-> None]),
                   !.head = new_node, !.tail = new_node]
    ELSE [l EXCEPT !.nodes = Append([@ EXCEPT ![l.tail].next = new_node],
                                    [data |-> data, prev |-> l.tail,
                                     next |-> None]),
                   !.tail = new_node]

(* The data from current on, following next until None.                    *)
RECURSIVE dl_data_from(_, _)
dl_data_from(nodes, current) ==
    IF current = None THEN <<>>
    ELSE <<nodes[current].data>> \o dl_data_from(nodes, nodes[current].next)

(* to_list                                                                 *)
dl_to_list(l) == dl_data_from(l.nodes, l.head)

(* if not lst: return cls(); dll = cls()                                   *)
DL_FromList ==
    /\ dl.pc = "start"
    /\ dl' = IF dl.lst = <<>>
             THEN [dl EXCEPT !.pc = "built"]
             ELSE [dl EXCEPT !.pc = "building", !.k = 0]
    /\ UNCHANGED dlOthers

(* One iteration of for item in lst: dll.append(item), or return dll.      *)
DL_FromListAppend ==
    /\ dl.pc = "building"
    /\ dl' = IF dl.k >= Len(dl.lst)
             THEN [dl EXCEPT !.pc = "built"]
             ELSE [dl_append(dl, dl.lst[dl.k + 1]) EXCEPT !.k = @ + 1]
    /\ UNCHANGED dlOthers

DLNext == DL_FromList \/ DL_FromListAppend

LLInit == CLInit \/ DLInit

LLNext == CLNext \/ DLNext

SpecLL == LLInit /\ [][LLNext]_vars

(* C27: from_list(lst).to_list() = lst for both lists, lists with 0        *)
(* included: after each add or append the list holds the values handed     *)
(* over so far, the last one last, and its length has grown by one.        *)
C27_FromListRoundTrip ==
    /\ (cl.pc \in {"building", "built"} =>
           /\ cl_to_list(cl) = SubSeq(cl.data_list, 1, cl.k)
           /\ cl.size = cl.k)
    /\ (dl.pc \in {"building", "built"} =>
           dl_to_list(dl) = SubSeq(dl.lst, 1, dl.k))

(***************************************************************************)
(* data_structures/queue.py: Queue, a list self._items with the front at   *)
(* index 0.  qu.items is self._items; qu.op, qu.result and qu.exc are the  *)
(* last method called, what it returned and what it raised; qu.prev is     *)
(* self._items before that call.  qu.log lists every item ever enqueued,   *)
(* in order, and qu.gone counts those dequeued or cleared since.           *)
(***************************************************************************)
QUMaxOps == 4

QUValues == 1..2

quOthers == <<backtracking, so, se, sk, cl, dl, cc, th>>

QUInit ==
    /\ qu = [pc |-> "start"]
    /\ BacktrackingIdle
    /\ so = Idle /\ se = Idle /\ sk = Idle /\ cl = Idle /\ dl = Idle
    /\ cc = Idle /\ th = Idle

(* Queue.__init__: self._items = [].                                       *)
QU_New ==
    /\ qu.pc = "start"
    /\ qu' = [pc |-> "ready", items |-> <<>>, prev |-> <<>>, op |-> "__init__",
              result |-> None, exc |-> "none", log |-> <<>>, gone |-> 0]
    /\ UNCHANGED quOthers

(* self.size(): len(self._items); is_empty(): self.size() == 0.            *)
qu_size(items) == Len(items)

qu_is_empty(items) == qu_size(items) = 0

(* self._items.pop(0): the front item and the rest.                        *)
qu_pop_rear(items) ==
    [result |-> items[Len(items)], items |-> SubSeq(items, 1, Len(items) - 1)]

qu_pop(items) == [result |-> Head(items), items |-> Tail(items)]

(* enqueue(item): self._items.append(item).                                *)
QU_Enqueue ==
    /\ qu.pc = "ready"
    /\ Len(qu.log) < QUMaxOps
    /\ \E item \in QUValues :
          qu' = [qu EXCEPT !.items = Append(qu.items, item), !.prev = qu.items,
                           !.op = "enqueue", !.result = None, !.exc = "none",
                           !.log = Append(qu.log, item)]
    /\ UNCHANGED quOthers

(* dequeue(): IndexError on an empty queue, else self._items.pop(0).       *)
QU_Dequeue ==
    /\ qu.pc = "ready"
    /\ qu' = IF qu_is_empty(qu.items)
             THEN [qu EXCEPT !.prev = qu.items, !.op = "dequeue",
                             !.result = None, !.exc = "IndexError"]
             ELSE [qu EXCEPT !.items = qu_pop(qu.items).items,
                             !.prev = qu.items, !.op = "dequeue",
                             !.result = qu_pop(qu.items).result,
                             !.exc = "none", !.gone = @ + 1]
    /\ UNCHANGED quOthers

(* peek(): IndexError on an empty queue, else self._items[0].              *)
QU_Peek ==
    /\ qu.pc = "ready"
    /\ qu' = IF qu_is_empty(qu.items)
             THEN [qu EXCEPT !.prev = qu.items, !.op = "peek",
                             !.result = None, !.exc = "IndexError"]
             ELSE [qu EXCEPT !.prev = qu.items, !.op = "peek",
                             !.result = qu.items[1], !.exc = "none"]
    /\ UNCHANGED quOthers

(* clear(): self._items.clear().                                           *)
QU_Clear ==
    /\ qu.pc = "ready"
    /\ qu' = [qu EXCEPT !.items = <<>>, !.prev = qu.items, !.op = "clear",
                        !.result = None, !.exc = "none",
                        !.gone = @ + Len(qu.items)]
    /\ UNCHANGED quOthers

(* size(): len(self._items).                                               *)
QU_Size ==
    /\ qu.pc = "ready"
    /\ qu' = [qu EXCEPT !.prev = qu.items, !.op = "size",
                        !.result = qu_size(qu.items), !.exc = "none"]
    /\ UNCHANGED quOthers

QUNext ==
    \/ QU_New
    \/ QU_Enqueue
    \/ QU_Dequeue
    \/ QU_Peek
    \/ QU_Clear
    \/ QU_Size

SpecQU == QUInit /\ [][QUNext]_vars

(* The items enqueued and neither dequeued nor cleared, oldest first.      *)
QUPending(q) == SubSeq(q.log, q.gone + 1, Len(q.log))

(* C28: the queue always holds the enqueued items not yet dequeued or      *)
(* cleared, oldest first; a dequeue returns the oldest of them and removes *)
(* only it; a peek returns the item the next dequeue would return and      *)
(* changes nothing; size() is their number; dequeue and peek on an empty   *)
(* queue raise IndexError and change nothing.                              *)
C28_QueueIsFifo ==
    qu.pc = "ready" =>
        /\ qu.items = QUPending(qu)
        /\ (qu.op = "dequeue" /\ qu.prev # <<>> =>
               /\ qu.exc = "none"
               /\ qu.result = qu.log[qu.gone]
               /\ qu.prev = <<qu.result>> \o qu.items)
        /\ (qu.op = "peek" /\ qu.prev # <<>> =>
               /\ qu.exc = "none"
               /\ qu.result = qu.log[qu.gone + 1]
               /\ qu.items = qu.prev)
        /\ (qu.op = "size" =>
               /\ qu.result = Len(qu.log) - qu.gone
               /\ qu.items = qu.prev)
        /\ (qu.op \in {"dequeue", "peek"} /\ qu.prev = <<>> =>
               /\ qu.exc = "IndexError"
               /\ qu.items = qu.prev)

(* A dequeue has returned the older of two different items while the       *)
(* younger one stays queued, after an earlier item was already removed.    *)
C28_Witness ==
    /\ qu.pc = "ready"
    /\ qu.op = "dequeue"
    /\ qu.exc = "none"
    /\ qu.gone = 2
    /\ Len(qu.items) = 1
    /\ qu.items[1] # qu.result

----------------------------------------------------------------------------
(* algorithms/greedy.py: coin_change(coins, amount).  cc.coins0 and        *)
(* cc.amount0 are the arguments; cc.coins is the local list sorted in      *)
(* descending order, cc.amount what is left to pay, cc.k the position of   *)
(* the for loop and cc.result the list being built, then the return value. *)

CCMaxLen == 2

CCMaxCoin == 4

CCMaxAmount == 6

ccOthers == <<backtracking, so, se, sk, cl, dl, qu, th>>

CCInputs ==
    {[coins |-> c, amount |-> a] :
        c \in UNION {[1..k -> 0..CCMaxCoin] : k \in 0..CCMaxLen},
        a \in (-1)..CCMaxAmount}

CCInit ==
    /\ cc \in {[pc |-> "start", coins0 |-> in.coins, amount0 |-> in.amount,
                coins |-> in.coins, amount |-> in.amount, k |-> 0,
                result |-> <<>>] : in \in CCInputs}
    /\ BacktrackingIdle
    /\ so = Idle /\ se = Idle /\ sk = Idle /\ cl = Idle /\ dl = Idle
    /\ qu = Idle /\ th = Idle

(* The sequence without its element at position i.                         *)
RemoveAt(s, i) == SubSeq(s, 1, i - 1) \o SubSeq(s, i + 1, Len(s))

(* sorted(coins, reverse=True).                                            *)
RECURSIVE cc_sorted(_)
cc_sorted(coins) ==
    IF coins = <<>> THEN <<>>
    ELSE LET i == CHOOSE j \in 1..Len(coins) :
                      \A k \in 1..Len(coins) : coins[j] >= coins[k]
         IN  <<coins[i]>> \o cc_sorted(RemoveAt(coins, i))

(* The two validations, then coins = sorted(coins, reverse=True) and       *)
(* result = [].                                                            *)
CC_Call ==
    /\ cc.pc = "start"
    /\ cc' = IF cc.amount < 0 \/ \E k \in 1..Len(cc.coins) : cc.coins[k] <= 0
             THEN [cc EXCEPT !.pc = "ValueError"]
             ELSE [cc EXCEPT !.pc = "for", !.coins = cc_sorted(cc.coins),
                             !.k = 1, !.result = <<>>]
    /\ UNCHANGED ccOthers

(* for coin in coins: one test of while amount >= coin, with its body or   *)
(* the step to the next coin.                                              *)
CC_While ==
    /\ cc.pc = "for"
    /\ cc.k <= Len(cc.coins)
    /\ cc' = IF cc.amount >= cc.coins[cc.k]
             THEN [cc EXCEPT !.amount = @ - cc.coins[cc.k],
                             !.result = Append(@, cc.coins[cc.k])]
             ELSE [cc EXCEPT !.k = @ + 1]
    /\ UNCHANGED ccOthers

(* if amount == 0: return result, else: return [].                         *)
CC_Return ==
    /\ cc.pc = "for"
    /\ cc.k > Len(cc.coins)
    /\ cc' = [cc EXCEPT !.pc = "done",
                        !.result = IF cc.amount = 0 THEN cc.result ELSE <<>>]
    /\ UNCHANGED ccOthers

CCNext == CC_Call \/ CC_While \/ CC_Return

SpecCC == CCInit /\ [][CCNext]_vars

(* Some multiset of the (positive) denominations sums to amount.           *)
RECURSIVE CCSolvable(_, _)
CCSolvable(coins, amount) ==
    \/ amount = 0
    \/ \E k \in 1..Len(coins) :
          /\ coins[k] <= amount
          /\ CCSolvable(coins, amount - coins[k])

(* C29: for positive denominations and an amount of at least 1 that some   *)
(* multiset of the denominations sums to, coin_change returns a non-empty  *)
(* list of denominations whose sum is the amount.                          *)
C29_CoinChangeFindsSolution ==
    (/\ cc.pc = "done"
     /\ AllPositive(cc.coins0)
     /\ cc.amount0 >= 1
     /\ CCSolvable(cc.coins0, cc.amount0))
    => /\ cc.result # <<>>
       /\ SeqRange(cc.result) \subseteq SeqRange(cc.coins0)
       /\ SeqSum(cc.result) = cc.amount0

----------------------------------------------------------------------------
(* algorithms/recursion.py: tower_of_hanoi(n, source, target, auxiliary).  *)
(* th.stack holds one frame per active call, the innermost last, with the  *)
(* call's n and rod names; th.moves is the list all calls share; th.n0 and *)
(* th.source0, th.target0, th.auxiliary0 are the outermost arguments and   *)
(* th.result is the outermost return value.                                *)

THRods == {"A", "B", "C"}

THInputs ==
    {in \in [n : 0..5, source : THRods, target : THRods, auxiliary : THRods] :
        in.source # in.target /\ in.auxiliary \notin {in.source, in.target}}

thOthers == <<backtracking, so, se, sk, cl, dl, qu, cc>>

THInit ==
    /\ th \in {[pc |-> "start", n0 |-> in.n, source0 |-> in.source,
                target0 |-> in.target, auxiliary0 |-> in.auxiliary,
                stack |-> <<>>, moves |-> <<>>, result |-> <<>>] :
               in \in THInputs}
    /\ BacktrackingIdle
    /\ so = Idle /\ se = Idle /\ sk = Idle /\ cl = Idle /\ dl = Idle
    /\ qu = Idle /\ cc = Idle

(* The frames of the two recursive calls made by the call with frame f.    *)
th_first_call_same_rods(f) ==
    [pc |-> "entry", n |-> f.n - 1, source |-> f.source,
     target |-> f.target, auxiliary |-> f.auxiliary]

th_first_call(f) ==
    [pc |-> "entry", n |-> f.n - 1, source |-> f.source,
     target |-> f.auxiliary, auxiliary |-> f.target]

th_second_call(f) ==
    [pc |-> "entry", n |-> f.n - 1, source |-> f.auxiliary,
     target |-> f.target, auxiliary |-> f.source]

(* The outermost call, with moves left out: moves = [].                    *)
TH_Call ==
    /\ th.pc = "start"
    /\ th' = [th EXCEPT !.pc = "running", !.moves = <<>>,
                        !.stack = <<[pc |-> "entry", n |-> th.n0,
                                     source |-> th.source0,
                                     target |-> th.target0,
                                     auxiliary |-> th.auxiliary0]>>]
    /\ UNCHANGED thOthers

(* Entry of a call: ValueError for n <= 0; the single move for n == 1;     *)
(* otherwise the first recursive call.                                     *)
TH_Entry ==
    /\ th.pc = "running"
    /\ Top(th.stack).pc = "entry"
    /\ LET f == Top(th.stack)
       IN  th' = IF f.n <= 0
                 THEN [th EXCEPT !.pc = "ValueError"]
                 ELSE IF f.n = 1
                 THEN [th EXCEPT
                          !.moves = Append(@, <<f.source, f.target>>),
                          !.stack = SetTop(th.stack, [f EXCEPT !.pc = "return"])]
                 ELSE [th EXCEPT
                          !.stack = Append(SetTop(th.stack,
                                                  [f EXCEPT !.pc = "first"]),
                                           th_first_call(f))]
    /\ UNCHANGED thOthers

(* The first recursive call has returned: record the move of disk n and    *)
(* make the second recursive call.                                         *)
TH_Move ==
    /\ th.pc = "running"
    /\ Top(th.stack).pc = "first"
    /\ LET f == Top(th.stack)
       IN  th' = [th EXCEPT
                     !.moves = Append(@, <<f.source, f.target>>),
                     !.stack = Append(SetTop(th.stack,
                                             [f EXCEPT !.pc = "second"]),
                                      th_second_call(f))]
    /\ UNCHANGED thOthers

(* The second recursive call has returned: nothing is left but return.     *)
TH_AfterSecond ==
    /\ th.pc = "running"
    /\ Top(th.stack).pc = "second"
    /\ th' = [th EXCEPT !.stack = SetTop(th.stack,
                                         [Top(th.stack) EXCEPT !.pc = "return"])]
    /\ UNCHANGED thOthers

(* return moves: to the calling frame, or out of the outermost call.       *)
TH_Return ==
    /\ th.pc = "running"
    /\ Top(th.stack).pc = "return"
    /\ th' = IF Len(th.stack) = 1
             THEN [th EXCEPT !.pc = "done", !.stack = <<>>,
                             !.result = th.moves]
             ELSE [th EXCEPT !.stack = Pop(th.stack)]
    /\ UNCHANGED thOthers

THNext ==
    \/ TH_Call
    \/ TH_Entry
    \/ TH_Move
    \/ TH_AfterSecond
    \/ TH_Return

SpecTH == THInit /\ [][THNext]_vars

(* Pegs as sequences of disk sizes, the top disk last; n disks stacked on  *)
(* one rod, the largest at the bottom.                                     *)
THTower(n) == [k \in 1..n |-> n + 1 - k]

THAllOn(rod, n) == [r \in THRods |-> IF r = rod THEN THTower(n) ELSE <<>>]

(* Replaying moves from pegs: the pegs reached and whether every move took *)
(* the top disk of a non-empty rod and put it on an empty rod or on a      *)
(* larger disk.                                                            *)
RECURSIVE THReplay(_, _)
THReplay(pegs, moves) ==
    IF moves = <<>> THEN [legal |-> TRUE, pegs |-> pegs]
    ELSE LET from == moves[1][1]
             to   == moves[1][2]
         IN  IF pegs[from] = <<>> THEN [legal |-> FALSE, pegs |-> pegs]
             ELSE LET disk == pegs[from][Len(pegs[from])]
                  IN  IF /\ pegs[to] # <<>>
                         /\ pegs[to][Len(pegs[to])] < disk
                      THEN [legal |-> FALSE, pegs |-> pegs]
                      ELSE THReplay(
                             [pegs EXCEPT
                                ![from] = SubSeq(@, 1, Len(@) - 1),
                                ![to] = Append(@, disk)],
                             Tail(moves))

(* C30: for n in 1..5 the call returns exactly 2^n - 1 moves; replayed     *)
(* from all n disks on source, every move takes the top disk of a          *)
(* non-empty rod, none puts a larger disk on a smaller one, and all n      *)
(* disks end on target.                                                    *)
C30_TowerOfHanoi ==
    (th.pc = "done" /\ th.n0 \in 1..5) =>
        /\ Len(th.result) = 2 ^ th.n0 - 1
        /\ LET replay == THReplay(THAllOn(th.source0, th.n0), th.result)
           IN  /\ replay.legal
               /\ replay.pegs = THAllOn(th.target0, th.n0)

(* The call for five disks from rod B to rod A has returned.               *)
C30_Witness ==
    /\ th.pc = "done"
    /\ th.n0 = 5
    /\ th.source0 = "B"
    /\ th.target0 = "A"
    /\ Len(th.result) = 31

----------------------------------------------------------------------------
(* The enumeration adapters together: each behaviour is one call of one of *)
(* n_queens, subset_sum, combination_sum, permutations,                    *)
(* all_possible_valid_parentheses, palindrome_partitioning, rat_in_maze.   *)

EnumInit == NQInit \/ SSInit \/ CSInit \/ PMInit \/ PAInit \/ PPInit \/ RMInit

EnumNext ==
    NQNext \/ SSNext \/ CSNext \/ PMNext \/ PANext \/ PPNext \/ RMNext

SpecEnum == EnumInit /\ [][EnumNext]_vars

(* The live list of a running adapter holds one element per pending        *)
(* mutation: as many as there are invocations below the innermost one,     *)
(* plus one while the innermost one is between its mutation and its undo.  *)
LiveDepth(x, live) ==
    x.pc = "running" =>
        Len(live) = IF x.stack = <<>> THEN 0
                    ELSE IF Top(x.stack).pc = "undo" THEN Len(x.stack)
                    ELSE Len(x.stack) - 1

(* A step leaves alone what every invocation that stays on the stack found *)
(* at its entry: the invocation at depth k found the first k - 1 elements. *)
EntryStateKept(x, xNext, live, liveNext) ==
    (x.pc = "running" /\ xNext.pc = "running") =>
        \A k \in 1..Len(x.stack) :
            k <= Len(xNext.stack) =>
                SubSeq(liveNext, 1, k - 1) = SubSeq(live, 1, k - 1)

(* What holds at the entry of the recursive helper and at each iteration   *)
(* of its candidate loop, for each of the five adapters.                   *)
AtEntryOrLoop(x) ==
    x.pc = "running" /\ x.stack # <<>> /\ Top(x.stack).pc \in {"entry", "loop"}

C31_StateAtEntry ==
    /\ LiveDepth(nq, nq.board) /\ LiveDepth(ss, ss.path)
    /\ LiveDepth(cs, cs.path) /\ LiveDepth(pp, pp.path)
    /\ (AtEntryOrLoop(nq) => Len(nq.board) = Top(nq.stack).row)
    /\ (AtEntryOrLoop(ss) => SeqSum(ss.path) = Top(ss.stack).current_sum)
    /\ (AtEntryOrLoop(cs) => SeqSum(cs.path) = Top(cs.stack).total)
    /\ (AtEntryOrLoop(pp) =>
           PPConcat(pp.path) = SubSeq(pp.s, 1, Top(pp.stack).start))
    /\ (rm.pc = "running" =>
           /\ \A r, c \in 0..(rm.n - 1) :
                 rm.visited[r + 1][c + 1] <=> <<r, c>> \in SeqRange(rm.path)
           /\ Len(rm.path) = Cardinality({k \in 1..Len(rm.stack) :
                                             rm.stack[k].pc = "calls"})
           /\ \A k \in 1..Len(rm.path) :
                 /\ rm.stack[k].pc = "calls"
                 /\ rm.path[k] = <<rm.stack[k].r, rm.stack[k].c>>)

C31_EntryStateKept ==
    /\ EntryStateKept(nq, nq', nq.board, nq'.board)
    /\ EntryStateKept(ss, ss', ss.path, ss'.path)
    /\ EntryStateKept(cs, cs', cs.path, cs'.path)
    /\ EntryStateKept(pp, pp', pp.path, pp'.path)
    /\ EntryStateKept(rm, rm', rm.path, rm'.path)

(* C31: in n_queens, subset_sum, combination_sum, palindrome_partitioning  *)
(* and rat_in_maze every mutation made before a child call is undone right *)
(* after it, so each iteration of a candidate loop sees the state its      *)
(* invocation was entered with; at every entry of the helper               *)
(* len(board) = row, sum(path) = current_sum (total), the pieces of path   *)
(* concatenate to s[:start], and visited marks exactly the cells of path.  *)
C31_StackDiscipline == [] C31_StateAtEntry /\ [][C31_EntryStateKept]_vars

(* A later column of row 0 is tried after the search below an earlier one  *)
(* has appended and popped at least two queens.                            *)
C31_Witness ==
    /\ nq.pc = "running" /\ nq.n = 4
    /\ Len(nq.stack) = 1
    /\ Top(nq.stack).pc = "loop" /\ Top(nq.stack).col = 2
    /\ nq.board = <<>>
    /\ Len(nq.solutions) = 1

----------------------------------------------------------------------------
(* The first-solution adapters together: each behaviour is one call of one *)
(* of sudoku_solver, hamiltonian_cycle, knights_tour, magic_square.        *)

FirstInit == SDInit \/ HCInit \/ KTInit \/ MSInit

FirstNext == SDNext \/ HCNext \/ KTNext \/ MSNext

SpecFirst == FirstInit /\ [][FirstNext]_vars

(* A step taken after some recursive call has returned True: the live      *)
(* state is left alone, no frame is pushed or advanced (the innermost      *)
(* pending call returns True in its turn), and the outermost return ends   *)
(* the call.                                                               *)
TruePropagates(x, xNext, live, liveNext) ==
    (x.pc = "running" /\ x.ret) =>
        /\ liveNext = live
        /\ xNext.ret
        /\ IF x.stack = <<>> THEN xNext.pc = "done"
           ELSE xNext.pc = "running" /\ xNext.stack = Pop(x.stack)

(* A step in which the innermost call returns False.                       *)
ReturnsFalse(x, xNext) ==
    /\ x.pc = "running" /\ xNext.pc = "running"
    /\ x.stack # <<>> /\ xNext.stack = Pop(x.stack)
    /\ ~xNext.ret

C32_TruePropagates ==
    /\ TruePropagates(sd, sd', sd.board, sd'.board)
    /\ TruePropagates(hc, hc', hc.path, hc'.path)
    /\ TruePropagates(kt, kt', <<kt.board, kt.path>>, <<kt'.board, kt'.path>>)
    /\ TruePropagates(ms, ms', <<ms.square, ms.used>>, <<ms'.square, ms'.used>>)

C32_FalseRestores ==
    /\ (ReturnsFalse(sd, sd') =>
           LET f == Top(sd.stack)
           IN  f.pc = "loop" /\ sd'.board[<<f.row, f.col>>] = 0)
    /\ (ReturnsFalse(hc, hc') =>
           LET f == Top(hc.stack)
           IN  f.pos < hc.n => hc'.path[f.pos + 1] = -1)
    /\ (ReturnsFalse(kt, kt') =>
           LET f == Top(kt.stack)
           IN  /\ kt'.board[f.x + 1][f.y + 1] = -1
               /\ Len(kt'.path) = f.move_count
               /\ <<f.x, f.y>> \notin SeqRange(kt'.path))
    /\ (ReturnsFalse(ms, ms') =>
           LET f == Top(ms.stack)
           IN  MSCell(ms'.square, f.row, f.col) = 0)

(* C32: in sudoku_solver, hamiltonian_cycle, knights_tour and magic_square *)
(* once a recursive call has returned True no further candidate is tried   *)
(* and the board or path is not modified before the top-level call         *)
(* returns; every recursive call that returns False has restored the cell  *)
(* or position it wrote.                                                   *)
C32_FirstSolutionKept == [][C32_TruePropagates /\ C32_FalseRestores]_vars

(* magic_square(3): True is on its way up through the pending calls,       *)
(* after calls that returned False.                                        *)
C32_Witness ==
    /\ ms.pc = "running" /\ ms.n = 3
    /\ ms.ret
    /\ Len(ms.stack) = 4
    /\ MSFull(ms.square, MSDiagLine(3))

(* The list of recorded solutions only grows at its end: what was recorded *)
(* before a step is still there, unchanged and in place, after it.         *)
IsPrefix(r, rNext) ==
    Len(r) <= Len(rNext) /\ SubSeq(rNext, 1, Len(r)) = r

(* What a step may add is one copy of the live state of that moment.       *)
RecordsLive(r, rNext, live) == rNext = r \/ rNext = Append(r, live)

C33_ResultGrows ==
    /\ (nq.pc # "idle" =>
           /\ IsPrefix(nq.solutions, nq'.solutions)
           /\ RecordsLive(nq.solutions, nq'.solutions, nq.board))
    /\ (ss.pc # "idle" =>
           /\ IsPrefix(ss.result, ss'.result)
           /\ RecordsLive(ss.result, ss'.result, ss.path))
    /\ (cs.pc # "idle" =>
           /\ IsPrefix(cs.result, cs'.result)
           /\ RecordsLive(cs.result, cs'.result, cs.path))
    /\ (pm.pc # "idle" =>
           /\ IsPrefix(pm.result, pm'.result)
           /\ RecordsLive(pm.result, pm'.result, pm.nums))
    /\ (pp.pc # "idle" =>
           /\ IsPrefix(pp.result, pp'.result)
           /\ RecordsLive(pp.result, pp'.result, pp.path))
    /\ (rm.pc # "idle" => IsPrefix(rm.paths, rm'.paths))
    /\ (pa.pc # "idle" => IsPrefix(pa.result, pa'.result))

C33_ReturnedAsRecorded ==
    /\ (nq.pc = "done" => nq.result = nq.solutions)
    /\ (rm.pc = "done" => rm.result = rm.paths)

(* C33: in every enumeration adapter a recorded solution is a copy: no     *)
(* later append, pop or swap on the live state changes it or an earlier    *)
(* element, and at any two points of the search the earlier result list is *)
(* a prefix of the later one.                                              *)
C33_SnapshotsIndependent ==
    [] C33_ReturnedAsRecorded /\ [][C33_ResultGrows]_vars

(* permutations: two arrangements are recorded and the live list has since *)
(* been swapped into a third one.                                          *)
C33_Witness ==
    /\ pm.pc = "running"
    /\ Len(pm.result) = 2
    /\ pm.nums # pm.result[1]
    /\ pm.nums # pm.result[2]
    /\ pm.result[1] # pm.result[2]

----------------------------------------------------------------------------
(* A board whose rows do not all have the length of the first one.         *)
WSRagged(board) == \E k \in 1..Len(board) : Len(board[k]) # Len(board[1])

(* C34: word_search never fails in the middle of the search: a board with  *)
(* rows of different lengths is rejected with ValueError before any cell   *)
(* is visited, and on an accepted board every cell access is inside the    *)
(* board (no IndexError).                                                  *)
C34_NoErrorMidSearch ==
    ws.pc \notin {"idle", "start"} =>
        /\ ws.pc # "IndexError"
        /\ (WSRagged(ws.board0) => ws.pc = "ValueError")

----------------------------------------------------------------------------
(* CircularLinkedList under add, remove and clear.  cl.nodes, cl.head and  *)
(* cl.size are as above; cl.op is the last method called with its argument *)
(* cl.arg and its return value cl.result; cl.ref is the reference          *)
(* sequence kept beside the list and cl.was_present whether the argument   *)
(* of the last call was in it before the call.                             *)

CLMaxNodes == 4

CLValues == {-1, 1, 2}

(* After CircularLinkedList(): self.head = None, self.size = 0.            *)
CLOpsInit ==
    /\ cl = [pc |-> "ready", nodes |-> <<>>, head |-> None, size |-> 0,
             op |-> "__init__", arg |-> 0, result |-> FALSE,
             ref |-> <<>>, was_present |-> FALSE]
    /\ BacktrackingIdle
    /\ so = Idle /\ se = Idle /\ sk = Idle /\ dl = Idle /\ qu = Idle
    /\ cc = Idle /\ th = Idle

(* The removal of the head node without re-pointing the tail at the new    *)
(* head.                                                                   *)
cl_unlink_tail_kept(l, current, prev) ==
    IF prev # None
    THEN [l EXCEPT !.nodes[prev].next = l.nodes[current].next,
                   !.head = IF current = l.head THEN l.nodes[current].next
                            ELSE @,
                   !.size = @ - 1]
    ELSE IF l.size = 1
    THEN [l EXCEPT !.head = None, !.size = @ - 1]
    ELSE [l EXCEPT !.head = l.nodes[current].next, !.size = @ - 1]

(* remove, once current.data == data: the node is unlinked after prev, or, *)
(* being the head, the only node goes or the tail is found and pointed at  *)
(* the new head; self.size -= 1.                                           *)
cl_unlink(l, current, prev) ==
    IF prev # None
    THEN [l EXCEPT !.nodes[prev].next = l.nodes[current].next,
                   !.head = IF current = l.head THEN l.nodes[current].next
                            ELSE @,
                   !.size = @ - 1]
    ELSE IF l.size = 1
    THEN [l EXCEPT !.head = None, !.size = @ - 1]
    ELSE LET tail == cl_tail(l.nodes, l.head, l.head) IN
         [l EXCEPT !.nodes[tail].next = l.nodes[current].next,
                   !.head = l.nodes[current].next,
                   !.size = @ - 1]

(* The loop for _ in range(self.size) of remove, with left iterations to   *)
(* go: the list it leaves and the value remove returns.                    *)
RECURSIVE cl_remove_scan(_, _, _, _, _)
cl_remove_scan(l, data, current, prev, left) ==
    IF left = 0 THEN [list |-> l, result |-> FALSE]
    ELSE IF l.nodes[current].data = data
    THEN [list |-> cl_unlink(l, current, prev), result |-> TRUE]
    ELSE IF l.nodes[current].next = None
    THEN [list |-> l, result |-> FALSE]
    ELSE cl_remove_scan(l, data, l.nodes[current].next, current, left - 1)

(* remove(data), data an integer.                                          *)
cl_remove(l, data) ==
    IF l.head = None THEN [list |-> l, result |-> FALSE]
    ELSE cl_remove_scan(l, data, l.head, None, l.size)

(* clear: self.head = None, self.size = 0.                                 *)
cl_clear(l) == [l EXCEPT !.head = None, !.size = 0]

(* The reference sequence after remove: without its first element equal to *)
(* data.                                                                   *)
RECURSIVE WithoutFirst(_, _)
WithoutFirst(s, data) ==
    IF s = <<>> THEN <<>>
    ELSE IF s[1] = data THEN Tail(s)
    ELSE <<s[1]>> \o WithoutFirst(Tail(s), data)

CL_Add ==
    /\ cl.pc = "ready"
    /\ Len(cl.nodes) < CLMaxNodes
    /\ \E data \in CLValues :
          cl' = [cl_add(cl, data) EXCEPT
                    !.op = "add", !.arg = data, !.result = FALSE,
                    !.ref = Append(cl.ref, data),
                    !.was_present = data \in SeqRange(cl.ref)]
    /\ UNCHANGED clOthers

CL_Remove ==
    /\ cl.pc = "ready"
    /\ \E data \in CLValues :
          LET r == cl_remove(cl, data) IN
          cl' = [r.list EXCEPT
                    !.op = "remove", !.arg = data, !.result = r.result,
                    !.ref = WithoutFirst(cl.ref, data),
                    !.was_present = data \in SeqRange(cl.ref)]
    /\ UNCHANGED clOthers

CL_Clear ==
    /\ cl.pc = "ready"
    /\ cl' = [cl_clear(cl) EXCEPT
                 !.op = "clear", !.arg = 0, !.result = FALSE,
                 !.ref = <<>>, !.was_present = FALSE]
    /\ UNCHANGED clOthers

CLOpsNext == CL_Add \/ CL_Remove \/ CL_Clear

SpecCL == CLOpsInit /\ [][CLOpsNext]_vars

(* Following next from current for at most fuel nodes: the nodes passed    *)
(* and whether head was met again.                                         *)
RECURSIVE CLWalk(_, _, _, _)
CLWalk(nodes, head, current, fuel) ==
    IF fuel = 0 \/ current = None THEN [closed |-> FALSE, passed |-> <<>>]
    ELSE IF nodes[current].next = head
    THEN [closed |-> TRUE, passed |-> <<current>>]
    ELSE LET rest == CLWalk(nodes, head, nodes[current].next, fuel - 1)
         IN  [closed |-> rest.closed, passed |-> <<current>> \o rest.passed]

(* C35: after any sequence of add, remove and clear with non-zero integers *)
(* size is the number of nodes met from head until head is met again, the  *)
(* last node's next is head, size == 0 iff head is None, to_list() is the  *)
(* reference sequence (appended to by add, losing its first equal element  *)
(* by remove), and remove returns True exactly when the value was present. *)
C35_CircularListConsistent ==
    cl.pc = "ready" =>
        /\ (cl.size = 0 <=> cl.head = None)
        /\ (cl.head # None =>
               LET walk == CLWalk(cl.nodes, cl.head, cl.head, Len(cl.nodes))
               IN  /\ walk.closed
                   /\ Len(walk.passed) = cl.size
                   /\ cl.nodes[walk.passed[Len(walk.passed)]].next = cl.head
                   /\ cl_to_list(cl) = cl.ref)
        /\ (cl.head = None => cl_to_list(cl) = <<>> /\ cl.ref = <<>>)
        /\ (cl.op = "remove" => (cl.result <=> cl.was_present))

(* The head of a list of three has been removed and a node added since.    *)
C35_Witness ==
    /\ cl.pc = "ready"
    /\ cl.op = "add"
    /\ cl.size = 3
    /\ Len(cl.nodes) = 4
    /\ cl.head = 2
    /\ cl.ref = <<2, 1, 2>>

----------------------------------------------------------------------------
(* DoublyLinkedList under append, prepend, delete and clear.  dl.nodes,    *)
(* dl.head and dl.tail are as above; dl.op is the last method called with  *)
(* its argument dl.arg, dl.exc what it raised, and dl.before the nodes,    *)
(* head and tail as they were before the call.                             *)

DLMaxNodes == 3

DLValues == {-1, 1, 2}

(* After DoublyLinkedList(): self.head = None, self.tail = None.           *)
DLOpsInit ==
    /\ dl = [pc |-> "ready", nodes |-> <<>>, head |-> None, tail |-> None,
             op |-> "__init__", arg |-> 0, exc |-> "none",
             before |-> [nodes |-> <<>>, head |-> None, tail |-> None]]
    /\ BacktrackingIdle
    /\ so = Idle /\ se = Idle /\ sk = Idle /\ cl = Idle /\ qu = Idle
    /\ cc = Idle /\ th = Idle

(* prepend: the list after it.                                             *)
dl_prepend(l, data) ==
    LET new_node == Len(l.nodes) + 1 IN
    IF Falsy(data) THEN l
    ELSE IF l.head = None
    THEN [l EXCEPT !.nodes = Append(@, [data |-> data, prev |-> None,
                                        next |-> None]),
                   !.head = new_node, !.tail = new_node]
    ELSE [l EXCEPT !.nodes = Append([@ EXCEPT ![l.head].prev = new_node],
                                    [data |-> data, prev |-> None,
                                     next |-> l.head]),
                   !.head = new_node]

(* The unlinking that leaves the prev of the following node as it was.     *)
dl_unlink_prev_kept(l, current) ==
    LET node == l.nodes[current]
        after_prev == IF node.prev # None
                      THEN [l EXCEPT !.nodes[node.prev].next = node.next]
                      ELSE [l EXCEPT !.head = node.next]
    IN  IF node.next # None
        THEN after_prev
        ELSE [after_prev EXCEPT !.tail = node.prev]

(* delete, once current.data == data: the node before current, or head,    *)
(* is pointed at the node after it; the node after current, or tail, is    *)
(* pointed back at the node before it.                                     *)
dl_unlink(l, current) ==
    LET node == l.nodes[current]
        after_prev == IF node.prev # None
                      THEN [l EXCEPT !.nodes[node.prev].next = node.next]
                      ELSE [l EXCEPT !.head = node.next]
    IN  IF node.next # None
        THEN [after_prev EXCEPT !.nodes[node.next].prev = node.prev]
        ELSE [after_prev EXCEPT !.tail = node.prev]

(* The loop while current of delete: the list it leaves and what it        *)
(* raises.                                                                 *)
RECURSIVE dl_delete_scan(_, _, _)
dl_delete_scan(l, data, current) ==
    IF current = None THEN [list |-> l, exc |-> "ValueError"]
    ELSE IF l.nodes[current].data = data
    THEN [list |-> dl_unlink(l, current), exc |-> "none"]
    ELSE dl_delete_scan(l, data, l.nodes[current].next)

(* delete(data): ValueError on the empty list and on falsy data.           *)
dl_delete(l, data) ==
    IF l.head = None THEN [list |-> l, exc |-> "ValueError"]
    ELSE IF Falsy(data) THEN [list |-> l, exc |-> "ValueError"]
    ELSE dl_delete_scan(l, data, l.head)

(* clear: self.head = None, self.tail = None.                              *)
dl_clear(l) == [l EXCEPT !.head = None, !.tail = None]

DLLinks(l) == [nodes |-> l.nodes, head |-> l.head, tail |-> l.tail]

DL_Append ==
    /\ dl.pc = "ready"
    /\ Len(dl.nodes) < DLMaxNodes
    /\ \E data \in DLValues :
          dl' = [dl_append(dl, data) EXCEPT
                    !.op = "append", !.arg = data, !.exc = "none",
                    !.before = DLLinks(dl)]
    /\ UNCHANGED dlOthers

DL_Prepend ==
    /\ dl.pc = "ready"
    /\ Len(dl.nodes) < DLMaxNodes
    /\ \E data \in DLValues :
          dl' = [dl_prepend(dl, data) EXCEPT
                    !.op = "prepend", !.arg = data, !.exc = "none",
                    !.before = DLLinks(dl)]
    /\ UNCHANGED dlOthers

DL_Delete ==
    /\ dl.pc = "ready"
    /\ \E data \in DLValues :
          LET r == dl_delete(dl, data) IN
          dl' = [r.list EXCEPT
                    !.op = "delete", !.arg = data, !.exc = r.exc,
                    !.before = DLLinks(dl)]
    /\ UNCHANGED dlOthers

DL_Clear ==
    /\ dl.pc = "ready"
    /\ dl' = [dl_clear(dl) EXCEPT
                 !.op = "clear", !.arg = 0, !.exc = "none",
                 !.before = DLLinks(dl)]
    /\ UNCHANGED dlOthers

DLOpsNext == DL_Append \/ DL_Prepend \/ DL_Delete \/ DL_Clear

SpecDL == DLOpsInit /\ [][DLOpsNext]_vars

(* Following next (or prev when backward) from current for at most fuel    *)
(* nodes: the nodes passed and whether None was reached.                   *)
RECURSIVE DLWalk(_, _, _, _)
DLWalk(nodes, current, fuel, backward) ==
    IF current = None THEN [ended |-> TRUE, passed |-> <<>>]
    ELSE IF fuel = 0 THEN [ended |-> FALSE, passed |-> <<>>]
    ELSE LET rest == DLWalk(nodes,
                            IF backward THEN nodes[current].prev
                                        ELSE nodes[current].next,
                            fuel - 1, backward)
         IN  [ended |-> rest.ended, passed |-> <<current>> \o rest.passed]

DLData(nodes, passed) == [k \in 1..Len(passed) |-> nodes[passed[k]].data]

(* C36: after any sequence of append, prepend, delete and clear with       *)
(* non-zero integers head is None iff tail is None; head.prev and          *)
(* tail.next are None; x.next.prev is x for every node x with a successor; *)
(* the values read backward from tail are the reverse of those read        *)
(* forward from head; a delete of an absent value raises ValueError and    *)
(* leaves the list unchanged.                                              *)
C36_DoublyLinkedConsistent ==
    dl.pc = "ready" =>
        LET forward  == DLWalk(dl.nodes, dl.head, Len(dl.nodes), FALSE)
            backward == DLWalk(dl.nodes, dl.tail, Len(dl.nodes), TRUE)
            was      == DLWalk(dl.before.nodes, dl.before.head,
                               Len(dl.before.nodes), FALSE)
        IN  /\ (dl.head = None <=> dl.tail = None)
            /\ (dl.head # None =>
                   /\ dl.nodes[dl.head].prev = None
                   /\ dl.nodes[dl.tail].next = None)
            /\ forward.ended /\ backward.ended
            /\ \A k \in 1..Len(forward.passed) :
                  LET x == forward.passed[k] IN
                  dl.nodes[x].next # None =>
                      dl.nodes[dl.nodes[x].next].prev = x
            /\ DLData(dl.nodes, backward.passed) =
                   Reversed(DLData(dl.nodes, forward.passed))
            /\ dl_to_list(dl) = DLData(dl.nodes, forward.passed)
            /\ (dl.op = "delete" =>
                   IF dl.arg \in SeqRange(DLData(dl.before.nodes, was.passed))
                   THEN dl.exc = "none"
                   ELSE dl.exc = "ValueError" /\ DLLinks(dl) = dl.before)

(* A node between two others has been deleted from a list built by both    *)
(* append and prepend.                                                     *)
C36_Witness ==
    /\ dl.pc = "ready"
    /\ dl.op = "delete" /\ dl.exc = "none"
    /\ dl.head = 3 /\ dl.tail = 2
    /\ dl.nodes[3].next = 2
    /\ Len(dl.nodes) = 3

====
